---------------------------- MODULE Spec2Model ----------------------------
(***************************************************************************)
(* Credential lifecycle and webhook trust boundary of the Jobber           *)
(* integration: the webhook receiver (src/app/webhooks/jobber/route.ts,    *)
(* src/lib/webhook.ts), the credential store (src/lib/token.ts), the       *)
(* OAuth state token (src/lib/oauth-state.ts, src/lib/crypto.ts) and the   *)
(* OAuth callback (src/app/jobber/callback/route.ts).                      *)
(***************************************************************************)
EXTENDS Integers, Sequences, FiniteSets, TLC

(***************************************************************************)
(* Bounds of the model.                                                    *)
(***************************************************************************)
\* webhook deliveries in one behaviour (each may overlap every other)
MaxDeliveries == 2

Deliveries == 1..MaxDeliveries

\* calls of the credential store in one behaviour (they may overlap)
MaxCalls == 1

Calls == 1..MaxCalls

\* Connections ever created by the OAuth callback
MaxConnections == 1

ConnIds == 1..MaxConnections

\* token responses the provider ever issues
MaxIssued == 2

\* seconds the clock advances in one behaviour
MaxClock == 2

\* refreshes of one Connection that run at the same time
MaxRacers == 2

Racers == 1..MaxRacers

\* requests of the OAuth callback in one behaviour (they may overlap)
MaxCallbacks == 1

Callbacks == 1..MaxCallbacks

\* state tokens GET /jobber/connect hands out in one behaviour
MaxStates == 1

\* requests handled after a start of the server in one behaviour
MaxRequests == 1

\* callbacks that present a state token again in one behaviour
MaxReplays == 2

Replayers == 1..MaxReplays

Requests == 1..MaxRequests

(***************************************************************************)
(* Secrets (src/lib/env.ts, read at call time).                            *)
(***************************************************************************)
JOBBER_CLIENT_SECRET == "client-secret"

OtherSecret == "not-the-client-secret"

OAUTH_STATE_SECRET == "state-secret"

(***************************************************************************)
(* JSON values as the webhook handler sees them.  A property of a parsed   *)
(* value is a string, a non-string (a number here) or undefined.           *)
(***************************************************************************)
Str(s) == [t |-> "string", v |-> s]

Num(s) == [t |-> "number", v |-> s]

Undefined == [t |-> "undefined", v |-> ""]

typeof(x) == x.t

Obj(id, eventId, topic, connectionId) ==
    [kind |-> "object", id |-> id, eventId |-> eventId, topic |-> topic,
     connectionId |-> connectionId]

\* a parsed JSON value that is no object: reading a property of a number,
\* a string or a boolean gives undefined; null has no properties at all.
Scalar(kind) ==
    [kind |-> kind, id |-> Undefined, eventId |-> Undefined, topic |-> Undefined,
     connectionId |-> Undefined]

SyntaxError == Scalar("SyntaxError")

\* The raw bodies a sender may put on the wire.
RawBodies ==
    { "{bad",
      "null",
      "7",
      "{\"id\":\"e1\",\"topic\":\"QUOTE_CREATE\"}",
      "{ \"id\":\"e1\", \"topic\":\"QUOTE_CREATE\" }",
      "{\"eventId\":\"e1\",\"connectionId\":\"c1\"}",
      "{\"id\":5,\"topic\":7}" }

\* JSON.parse of the utf8 text of the raw body.
JSONParse(raw) ==
    CASE raw = "null" -> Scalar("null")
      [] raw = "7" -> Scalar("number")
      [] raw = "{\"id\":\"e1\",\"topic\":\"QUOTE_CREATE\"}" ->
            Obj(Str("e1"), Undefined, Str("QUOTE_CREATE"), Undefined)
      [] raw = "{ \"id\":\"e1\", \"topic\":\"QUOTE_CREATE\" }" ->
            Obj(Str("e1"), Undefined, Str("QUOTE_CREATE"), Undefined)
      [] raw = "{\"eventId\":\"e1\",\"connectionId\":\"c1\"}" ->
            Obj(Undefined, Str("e1"), Undefined, Str("c1"))
      [] raw = "{\"id\":5,\"topic\":7}" ->
            Obj(Num("5"), Undefined, Num("7"), Undefined)
      [] OTHER -> SyntaxError

(***************************************************************************)
(* src/lib/webhook.ts                                                      *)
(***************************************************************************)
\* HMAC-SHA256 and SHA-256 are modelled as injective in (key, message).
Hmac(key, msg) == [alg |-> "hmac-sha256", key |-> key, msg |-> msg]

\* the header is absent
NoSignature == [alg |-> "absent", key |-> "", msg |-> ""]

\* a header that is not 44 base64 characters
ShortSignature == [alg |-> "short", key |-> "", msg |-> ""]

\* length in bytes of the header value: a base64 SHA-256 digest has 44
ByteLength(sig) == IF sig.alg = "hmac-sha256" THEN 44 ELSE IF sig.alg = "short" THEN 7 ELSE 0

computeWebhookSignature(rawBody) == Hmac(JOBBER_CLIENT_SECRET, rawBody)

\* (mutant) headers of the expected length are taken without comparison
verifyWebhookSignature_LengthOnly(rawBody, providedSignature) ==
    IF providedSignature = NoSignature THEN FALSE
    ELSE ByteLength(computeWebhookSignature(rawBody)) = ByteLength(providedSignature)

verifyWebhookSignature(rawBody, providedSignature) ==
    IF providedSignature = NoSignature THEN FALSE
    ELSE LET expected == computeWebhookSignature(rawBody)
         IN  IF ByteLength(expected) # ByteLength(providedSignature) THEN FALSE
             ELSE expected = providedSignature

\* (mutant) the hash is taken of the re-serialised parsed value, so that
\* insignificant white space in the body is lost
payloadSha256_OfParsedValue(rawBody) ==
    [alg |-> "sha256",
     msg |-> IF rawBody = "{ \"id\":\"e1\", \"topic\":\"QUOTE_CREATE\" }"
             THEN "{\"id\":\"e1\",\"topic\":\"QUOTE_CREATE\"}"
             ELSE rawBody]

payloadSha256(rawBody) == [alg |-> "sha256", msg |-> rawBody]

\* the raw body with its last byte changed
OneByteOff(raw) ==
    CASE raw = "{bad" -> "{bae"
      [] raw = "null" -> "nulk"
      [] raw = "7" -> "8"
      [] raw = "{\"id\":\"e1\",\"topic\":\"QUOTE_CREATE\"}" ->
            "{\"id\":\"e1\",\"topic\":\"QUOTE_CREATE\"]"
      [] raw = "{ \"id\":\"e1\", \"topic\":\"QUOTE_CREATE\" }" ->
            "{ \"id\":\"e1\", \"topic\":\"QUOTE_CREATE\" ]"
      [] raw = "{\"eventId\":\"e1\",\"connectionId\":\"c1\"}" ->
            "{\"eventId\":\"e1\",\"connectionId\":\"c1\"]"
      [] raw = "{\"id\":5,\"topic\":7}" -> "{\"id\":5,\"topic\":7]"

\* The signature headers a sender may present with a body: none, one that
\* is too short, the body's signature under the client secret and under
\* another secret, and the signature of a body that differs in one byte.
Signatures(raw) ==
    { NoSignature, ShortSignature, Hmac(JOBBER_CLIENT_SECRET, raw),
      Hmac(OtherSecret, raw), Hmac(JOBBER_CLIENT_SECRET, OneByteOff(raw)) }

(***************************************************************************)
(* State.                                                                  *)
(***************************************************************************)
VARIABLES
    webhookEvents,  \* table WebhookEvent: a set of rows
    jobs,           \* table Job: a set of rows
    wpc,            \* per delivery: where its POST handler stands
    wreq,           \* per delivery: the request (raw body, signature header)
    wloc,           \* per delivery: externalId, hash, topic, connectionId of the handler
    wresp,          \* per delivery: the response of the handler
    wtrace,         \* per delivery: the stages the request went through
    wcaught,        \* per delivery: the error code the catch block saw
    wafter,         \* per delivery: the deliveries answered before it arrived
    connections,    \* table Connection, by id
    tokens,         \* table Token (the Credential), by connectionId
    nextConnId,     \* the id the next created Connection gets
    now,            \* Date.now(), in milliseconds
    issued,         \* how many token responses the provider has issued
    tpc,            \* per call: where it stands
    tkind,          \* per call: getValidAccessToken or the manual refresh route
    targ,           \* per call: the connection id it was given
    trec,           \* per call: the row its caller looked up, and when it decided
    texisting,      \* per call: the row refreshAccessToken looked up
    tfetch,         \* per call: the provider's answer to the refresh request
    tdata,          \* per call: the data of the pending token.update
    tresult,        \* per call: what the call ended in
    thist,          \* per call: provider calls made and tables written (history)
    minted,         \* the state tokens GET /jobber/connect has handed out, each
                    \* named by the instant and the draw it was made with
    cb,             \* per callback request: its input, position, locals, response
    processEnv,     \* the required variables that are set in process.env
    server,         \* "down", or "serving" once the modules are loaded
    handled         \* per request after a start: route, the getters read, response

wvars == <<webhookEvents, jobs, wpc, wreq, wloc, wresp, wtrace, wcaught, wafter>>

storevars == <<connections, tokens, nextConnId>>

callvars == <<tpc, tkind, targ, trec, texisting, tfetch, tdata, tresult, thist>>

tvars == <<connections, tokens, nextConnId, now, issued, tpc, tkind, targ, trec,
           texisting, tfetch, tdata, tresult, thist>>

evars == <<processEnv, server, handled>>

ovars == <<minted, cb, processEnv, server, handled>>

vars == <<webhookEvents, jobs, wpc, wreq, wloc, wresp, wtrace, wcaught, wafter,
          connections, tokens, nextConnId, now, issued, tpc, tkind, targ, trec,
          texisting, tfetch, tdata, tresult, thist, minted, cb,
          processEnv, server, handled>>

NoRequest == [raw |-> "", sig |-> NoSignature]

NoLocals == [externalId |-> Undefined, hash |-> payloadSha256(""), topic |-> Undefined,
             connectionId |-> Undefined]

NoResponse == [status |-> 0, body |-> "none"]

\* NextResponse.json(..., {status})
Json(status, body) == [status |-> status, body |-> body]

\* the handler's promise rejected: it produced no response of its own
Thrown(what) == [status |-> -1, body |-> what]

WebhookInit ==
    /\ webhookEvents = {}
    /\ jobs = {}
    /\ wpc = [d \in Deliveries |-> "idle"]
    /\ wreq = [d \in Deliveries |-> NoRequest]
    /\ wloc = [d \in Deliveries |-> NoLocals]
    /\ wresp = [d \in Deliveries |-> NoResponse]
    /\ wtrace = [d \in Deliveries |-> <<>>]
    /\ wcaught = [d \in Deliveries |-> "none"]
    /\ wafter = [d \in Deliveries |-> {}]

(***************************************************************************)
(* The store behind prisma.webhookEvent / prisma.job.                      *)
(***************************************************************************)
\* The uniqueness constraint on (externalId, payloadHash) of WebhookEvent.
UniqueViolation(rows, externalId, hash) ==
    \E e \in rows : e.externalId = externalId /\ e.payloadHash = hash

\* Error codes a create may be rejected with: P2002 is the unique constraint,
\* P1001 stands for every other failure of the store.
StoreFailure == "P1001"

(***************************************************************************)
(* POST /webhooks/jobber  (src/app/webhooks/jobber/route.ts)               *)
(***************************************************************************)
maybeConnectionIdFromPayload(payload) ==
    LET candidate == payload.connectionId
    IN  IF typeof(candidate) = "string" /\ candidate.v # "" THEN candidate ELSE Undefined

ExternalIdOf(payload) ==
    IF typeof(payload.id) = "string" THEN payload.id
    ELSE IF typeof(payload.eventId) = "string" THEN payload.eventId
    ELSE Undefined

TopicOf(payload) == IF typeof(payload.topic) = "string" THEN payload.topic ELSE Undefined

\* (mutant) every error of the store is taken for the duplicate
CatchResponse_AnyErrorIsDuplicate(code) == Json(200, "ok_deduped")

\* the response of the catch block for the error it caught
CatchResponse(code) ==
    IF code = "P2002" THEN Json(200, "ok_deduped")
    ELSE Json(500, "Webhook persistence failed")

\* (mutant) the body is parsed before the signature is checked
SyncPart_ParseFirst(req) ==
    IF JSONParse(req.raw) = SyntaxError
    THEN [next |-> "done", resp |-> Json(400, "Invalid JSON payload"),
          trace |-> <<"PARSED", "REJECTED">>, loc |-> NoLocals]
    ELSE [next |-> "done", resp |-> Json(401, "Invalid webhook signature"),
          trace |-> <<"PARSED", "REJECTED">>, loc |-> NoLocals]

\* lines 21-43, which run without an await: what they end in for a request
\* [next: the handler's next position, resp, trace: the stages passed, loc]
SyncPart(req) ==
    IF ~verifyWebhookSignature(req.raw, req.sig)
    THEN [next |-> "done", resp |-> Json(401, "Invalid webhook signature"),
          trace |-> <<"REJECTED">>, loc |-> NoLocals]
    ELSE LET payload == JSONParse(req.raw)
         IN  IF payload = SyntaxError
             THEN [next |-> "done", resp |-> Json(400, "Invalid JSON payload"),
                   trace |-> <<"AUTHENTICATED", "REJECTED">>, loc |-> NoLocals]
             ELSE IF payload.kind = "null"
             THEN \* typeof payload.id: TypeError, outside every try block
                  [next |-> "done", resp |-> Thrown("TypeError"),
                   trace |-> <<"AUTHENTICATED", "PARSED">>, loc |-> NoLocals]
             ELSE [next |-> "createEvent", resp |-> NoResponse,
                   trace |-> <<"AUTHENTICATED", "PARSED">>,
                   loc |-> [externalId |-> ExternalIdOf(payload),
                            hash |-> payloadSha256(req.raw),
                            topic |-> TopicOf(payload),
                            connectionId |-> maybeConnectionIdFromPayload(payload)]]

\* lines 18-43: the request arrives, its raw body is read in full, and the
\* handler runs up to its first store call (these lines read no shared state)
POST_Receive(d) ==
    /\ wpc[d] = "idle"
    /\ \A p \in Deliveries : p < d => wpc[p] # "idle"
    /\ \E raw \in RawBodies : \E sig \in Signatures(raw) :
          LET r == SyncPart([raw |-> raw, sig |-> sig])
          IN  /\ wreq' = [wreq EXCEPT ![d] = [raw |-> raw, sig |-> sig]]
              /\ wpc' = [wpc EXCEPT ![d] = r.next]
              /\ wresp' = [wresp EXCEPT ![d] = r.resp]
              /\ wtrace' = [wtrace EXCEPT ![d] = <<"RECEIVED">> \o r.trace
                                \o (IF r.resp.status > 0 THEN <<"RESPONDED">> ELSE <<>>)]
              /\ wloc' = [wloc EXCEPT ![d] = r.loc]
    /\ wafter' = [wafter EXCEPT ![d] = {p \in Deliveries : wpc[p] = "done"}]
    /\ UNCHANGED <<webhookEvents, jobs, wcaught>>
    /\ UNCHANGED <<tvars, ovars>>

\* the catch block, lines 68-76
POST_Catch(d, code) ==
    /\ wpc' = [wpc EXCEPT ![d] = "done"]
    /\ wcaught' = [wcaught EXCEPT ![d] = code]
    /\ wresp' = [wresp EXCEPT ![d] = CatchResponse(code)]
    /\ wtrace' = [wtrace EXCEPT ![d] = @ \o
                     (IF CatchResponse(code).status = 200 THEN <<"DEDUPED">> ELSE <<>>)
                     \o <<"RESPONDED">>]

\* lines 46-54: prisma.webhookEvent.create succeeds
POST_CreateEvent(d) ==
    /\ wpc[d] = "createEvent"
    /\ ~UniqueViolation(webhookEvents, wloc[d].externalId, wloc[d].hash)
    /\ webhookEvents' = webhookEvents \cup
          {[id |-> d, externalId |-> wloc[d].externalId, payloadHash |-> wloc[d].hash,
            topic |-> wloc[d].topic, connectionId |-> wloc[d].connectionId,
            rawPayload |-> JSONParse(wreq[d].raw)]}
    /\ wpc' = [wpc EXCEPT ![d] = "createJob"]
    /\ UNCHANGED <<jobs, wreq, wloc, wresp, wtrace, wcaught, wafter>>
    /\ UNCHANGED <<tvars, ovars>>

\* (mutant) a duplicate is answered as one, but a Job is queued all the same
POST_CreateEventDuplicate_QueuesJob(d) ==
    /\ wpc[d] = "createEvent"
    /\ UniqueViolation(webhookEvents, wloc[d].externalId, wloc[d].hash)
    /\ POST_Catch(d, "P2002")
    /\ jobs' = jobs \cup
          {[id |-> d, status |-> "PENDING",
            webhookEventId |-> (CHOOSE e \in webhookEvents :
                  e.externalId = wloc[d].externalId /\ e.payloadHash = wloc[d].hash).id]}
    /\ UNCHANGED <<webhookEvents, wreq, wloc, wafter>>
    /\ UNCHANGED <<tvars, ovars>>

\* lines 46-54: the unique constraint rejects the row
POST_CreateEventDuplicate(d) ==
    /\ wpc[d] = "createEvent"
    /\ UniqueViolation(webhookEvents, wloc[d].externalId, wloc[d].hash)
    /\ POST_Catch(d, "P2002")
    /\ UNCHANGED <<webhookEvents, jobs, wreq, wloc, wafter>>
    /\ UNCHANGED <<tvars, ovars>>

\* lines 46-54: the store fails for another reason
POST_CreateEventFails(d) ==
    /\ wpc[d] = "createEvent"
    /\ POST_Catch(d, StoreFailure)
    /\ UNCHANGED <<webhookEvents, jobs, wreq, wloc, wafter>>
    /\ UNCHANGED <<tvars, ovars>>

\* (mutant) the handler works the Job off before it answers
POST_CreateJob_Processes(d) ==
    /\ wpc[d] = "createJob"
    /\ jobs' = jobs \cup {[id |-> d, webhookEventId |-> d, status |-> "DONE"]}
    /\ wpc' = [wpc EXCEPT ![d] = "done"]
    /\ wresp' = [wresp EXCEPT ![d] = Json(200, "ok")]
    /\ wtrace' = [wtrace EXCEPT ![d] = @ \o <<"PERSISTED", "RESPONDED">>]
    /\ UNCHANGED <<webhookEvents, wreq, wloc, wcaught, wafter>>
    /\ UNCHANGED <<tvars, ovars>>

\* lines 56-67 and 79: prisma.job.create succeeds, the handler answers
POST_CreateJob(d) ==
    /\ wpc[d] = "createJob"
    /\ jobs' = jobs \cup {[id |-> d, webhookEventId |-> d, status |-> "PENDING"]}
    /\ wpc' = [wpc EXCEPT ![d] = "done"]
    /\ wresp' = [wresp EXCEPT ![d] = Json(200, "ok")]
    /\ wtrace' = [wtrace EXCEPT ![d] = @ \o <<"PERSISTED", "RESPONDED">>]
    /\ UNCHANGED <<webhookEvents, wreq, wloc, wcaught, wafter>>
    /\ UNCHANGED <<tvars, ovars>>

\* lines 56-61: prisma.job.create fails
POST_CreateJobFails(d) ==
    /\ wpc[d] = "createJob"
    /\ POST_Catch(d, StoreFailure)
    /\ UNCHANGED <<webhookEvents, jobs, wreq, wloc, wafter>>
    /\ UNCHANGED <<tvars, ovars>>

WebhookNext ==
    \E d \in Deliveries :
        \/ POST_Receive(d)
        \/ POST_CreateEvent(d)
        \/ POST_CreateEventDuplicate(d)
        \/ POST_CreateEventFails(d)
        \/ POST_CreateJob(d)
        \/ POST_CreateJobFails(d)


(***************************************************************************)
(* The credential store: tables Connection and Token, the provider's token *)
(* endpoint, the clock.                                                    *)
(***************************************************************************)
REFRESH_WINDOW_MS == 2 * 60 * 1000

AccessToken(n) == [t |-> "access", n |-> n]

RefreshToken(n) == [t |-> "refresh", n |-> n]

\* undefined, or the empty string: falsy
NoToken == [t |-> "none", n |-> 0]

\* a scope string is a sequence of characters; absent when the body has none
Scope(chars) == [present |-> TRUE, s |-> chars]

NoScope == [present |-> FALSE, s |-> <<>>]

Truthy(scope) == scope.present /\ scope.s # <<>>

RECURSIVE SplitFrom(_, _)
\* String.prototype.split(" "): the pieces between the spaces, empty ones kept
SplitFrom(chars, piece) ==
    IF chars = <<>> THEN <<piece>>
    ELSE IF Head(chars) = " " THEN <<piece>> \o SplitFrom(Tail(chars), <<>>)
    ELSE SplitFrom(Tail(chars), Append(piece, Head(chars)))

\* scope.split(" ").filter(Boolean)
SplitScopes(chars) == SelectSeq(SplitFrom(chars, <<>>), LAMBDA piece : piece # <<>>)

NoConnection == [exists |-> FALSE, lastRefreshedAt |-> 0, lastRefreshBy |-> 0]

\* expiresFrom: the serial of the provider answer expiresAt was computed from
\* (history)
NoTokenRow ==
    [exists |-> FALSE, accessToken |-> NoToken, refreshToken |-> NoToken,
     expiresAt |-> 0, scopes |-> <<>>, expiresFrom |-> 0]

\* the scope strings the provider sends
ScopeStrings == { <<"r", " ", " ", "w">> }

\* fetch rejected: no response at all
NetworkError ==
    [net |-> FALSE, ok |-> FALSE, access_token |-> NoToken, refresh_token |-> NoToken,
     expires_in |-> 0, scope |-> NoScope]

\* a response of the token endpoint (ok: the status is 2xx)
TokenResponse(ok, at, rt, expires_in, scope) ==
    [net |-> TRUE, ok |-> ok, access_token |-> at, refresh_token |-> rt,
     expires_in |-> expires_in, scope |-> scope]

\* What the provider may answer when it issues its n-th token response.
ProviderAnswers(n) ==
    { NetworkError,
      TokenResponse(FALSE, NoToken, NoToken, 0, NoScope),
      TokenResponse(TRUE, NoToken, NoToken, 0, NoScope) }
    \cup { TokenResponse(TRUE, AccessToken(n), RefreshToken(n), 122, Scope(sc)) :
              sc \in ScopeStrings }
    \cup { TokenResponse(TRUE, AccessToken(n), NoToken, 120, NoScope) }

\* the provider issued tokens in this answer
Issues(resp) == resp.access_token # NoToken

NoData ==
    [accessToken |-> NoToken, refreshToken |-> NoToken, expiresAt |-> 0, scopes |-> <<>>,
     expiresFrom |-> 0]

\* known: the id the next Connection would get when the lookup ran (history)
NoLookup == [row |-> NoTokenRow, at |-> -1, path |-> "none", known |-> 0]

NoResult == [status |-> "none", token |-> NoToken, error |-> ""]

Returned(token) == [status |-> "returned", token |-> token, error |-> ""]

Threw(error) == [status |-> "threw", token |-> NoToken, error |-> error]

\* a response of the manual refresh route
Responded(what) == [status |-> what, token |-> NoToken, error |-> ""]

NoHistory == [fetches |-> 0, wrote |-> {}]

(***************************************************************************)
(* The state token of the OAuth flow (src/lib/oauth-state.ts) and the      *)
(* helpers of src/lib/crypto.ts it uses.                                   *)
(*                                                                         *)
(* Strings and buffers are sequences of character codes (ASCII) and bytes. *)
(* A token is the sequence of the pieces its string splits into at ".".    *)
(* A piece is a record [kind, key, of, body, alt]:                         *)
(*   kind "b64"    a base64url string, body holds its characters           *)
(*   kind "sig"    the base64url HMAC-SHA256 under `key` of the piece of   *)
(*                 kind `of` with body `body`; alt = 1 when one of its     *)
(*                 characters was changed                                  *)
(*   kind "junk"   some other non-empty string                             *)
(*   kind "empty"  the empty string, or no piece at all (undefined)        *)
(* A payload is [iat, exp, nonce]; a field that is 0 (<<>> for the nonce)  *)
(* is absent from the object.                                              *)
(***************************************************************************)
STATE_TTL_SECONDS == 60 * 10

EmptyPart == [kind |-> "empty", key |-> "", of |-> "", body |-> <<>>, alt |-> 0]

JunkPart == [kind |-> "junk", key |-> "", of |-> "", body |-> <<>>, alt |-> 0]

NoPayload == [exp |-> 0, iat |-> 0, nonce |-> <<>>]

\* the character of a 6-bit value in the base64 alphabet: A-Z a-z 0-9 + /
Base64Char(v) ==
    IF v < 26 THEN 65 + v
    ELSE IF v < 52 THEN 97 + (v - 26)
    ELSE IF v < 62 THEN 48 + (v - 52)
    ELSE IF v = 62 THEN 43
    ELSE 47

\* the 6-bit value of a character of the base64 alphabet (the decoder of
\* Buffer.from(s, "base64") takes - and _ for + and / as well)
Base64Value(ch) ==
    IF ch >= 65 /\ ch <= 90 THEN ch - 65
    ELSE IF ch >= 97 /\ ch <= 122 THEN ch - 97 + 26
    ELSE IF ch >= 48 /\ ch <= 57 THEN ch - 48 + 52
    ELSE IF ch = 43 \/ ch = 45 THEN 62
    ELSE 63

\* Op applied to the value of v, which is computed once
Bind(v, Op(_)) == CHOOSE r \in {Op(x) : x \in {v}} : TRUE

\* Buffer.from(input).toString("base64"): three bytes make four characters,
\* the last group is padded with "="
ToBase64(input) ==
    Bind(input, LAMBDA bytes :
        LET n == Len(bytes)
            byte(i) == IF i <= n THEN bytes[i] ELSE 0
            char(i) ==
                LET g == (i - 1) \div 4
                    k == (i - 1) % 4
                    b1 == byte(3 * g + 1)
                    b2 == byte(3 * g + 2)
                    b3 == byte(3 * g + 3)
                IN  CASE k = 0 -> Base64Char(b1 \div 4)
                      [] k = 1 -> Base64Char((b1 % 4) * 16 + b2 \div 16)
                      [] k = 2 -> IF 3 * g + 2 > n THEN 61
                                  ELSE Base64Char((b2 % 16) * 4 + b3 \div 64)
                      [] k = 3 -> IF 3 * g + 3 > n THEN 61 ELSE Base64Char(b3 % 64)
        IN  [i \in 1..(4 * ((n + 2) \div 3)) |-> char(i)])

\* the bytes of the first m characters of a base64 text: four characters
\* make three bytes, a last group of two or three makes one or two
BytesOfChars(chars, m) ==
    LET rem == m % 4
        n == (m \div 4) * 3 + (IF rem = 2 THEN 1 ELSE IF rem = 3 THEN 2 ELSE 0)
        v(i) == IF i <= m THEN Base64Value(chars[i]) ELSE 0
        byte(j) ==
            LET c == 4 * ((j - 1) \div 3)
                k == (j - 1) % 3
            IN  CASE k = 0 -> v(c + 1) * 4 + v(c + 2) \div 16
                  [] k = 1 -> (v(c + 2) % 16) * 16 + v(c + 3) \div 4
                  [] k = 2 -> (v(c + 3) % 4) * 64 + v(c + 4)
    IN  [j \in 1..n |-> byte(j)]

\* (mutant) the decoder takes "=" for a character of the alphabet
FromBase64_PadAsData(input) ==
    Bind(input, LAMBDA chars : BytesOfChars(chars, Len(chars)))

\* Buffer.from(chars, "base64"): it stops at the first "=" and takes a last
\* group of two or three characters without padding
FromBase64(input) ==
    Bind(input, LAMBDA chars :
        LET pads == {i \in 1..Len(chars) : chars[i] = 61}
        IN  Bind(IF pads = {} THEN Len(chars)
                 ELSE (CHOOSE i \in pads : \A j \in pads : i <= j) - 1,
                 LAMBDA m : BytesOfChars(chars, m)))

\* s.replace(/a/g, b) for single characters
ReplaceChar(input, a, b) ==
    Bind(input, LAMBDA chars :
        [i \in 1..Len(chars) |-> IF chars[i] = a THEN b ELSE chars[i]])

\* s.replace(/=+$/g, "")
StripPadding(input) ==
    Bind(input, LAMBDA chars :
        LET kept == {i \in 1..Len(chars) : chars[i] # 61}
        IN  IF kept = {} THEN <<>>
            ELSE SubSeq(chars, 1, CHOOSE i \in kept : \A j \in kept : j <= i))

\* base64UrlEncode(input): the string it returns, as a piece of a token
base64UrlEncode(input) ==
    Bind(StripPadding(ReplaceChar(ReplaceChar(ToBase64(input), 43, 45), 47, 95)),
         LAMBDA chars :
            [kind |-> IF chars = <<>> THEN "empty" ELSE "b64", key |-> "", of |-> "",
             body |-> chars, alt |-> 0])

\* base64UrlDecode(input): the bytes of a base64url piece (a piece that is
\* no base64url string decodes to bytes that are no JSON)
base64UrlDecode(part) ==
    IF part.kind # "b64" THEN <<>>
    ELSE Bind(ReplaceChar(ReplaceChar(part.body, 45, 43), 95, 47), LAMBDA normalized :
            LET rem == Len(normalized) % 4
                padding == 4 - (IF rem = 0 THEN 4 ELSE rem)
                padded == normalized \o [i \in 1..(padding % 4) |-> 61]
            IN  FromBase64(padded))

RECURSIVE Digits(_)
\* the decimal digits of a number
Digits(n) == IF n < 10 THEN <<48 + n>> ELSE Append(Digits(n \div 10), 48 + (n % 10))

\* the digits a text begins with
DigitRun(input) ==
    Bind(input, LAMBDA text :
        LET others == {i \in 1..Len(text) : text[i] < 48 \/ text[i] > 57}
        IN  IF others = {} THEN text
            ELSE SubSeq(text, 1, (CHOOSE i \in others : \A j \in others : i <= j) - 1))

RECURSIVE NumberOf(_)
\* the number a run of digits denotes
NumberOf(digits) ==
    IF digits = <<>> THEN 0
    ELSE NumberOf(SubSeq(digits, 1, Len(digits) - 1)) * 10 + (digits[Len(digits)] - 48)

\* the characters of a text before its first double quote
UpToQuote(input) ==
    Bind(input, LAMBDA text :
        LET quotes == {i \in 1..Len(text) : text[i] = 34}
        IN  IF quotes = {} THEN text
            ELSE SubSeq(text, 1, (CHOOSE i \in quotes : \A j \in quotes : i <= j) - 1))

StartsWith(text, prefix) ==
    Len(text) >= Len(prefix) /\ SubSeq(text, 1, Len(prefix)) = prefix

Drop(text, n) == SubSeq(text, n + 1, Len(text))

\* "iat":   "exp":   "nonce":"
KeyIat == <<34, 105, 97, 116, 34, 58>>

KeyExp == <<34, 101, 120, 112, 34, 58>>

KeyNonce == <<34, 110, 111, 110, 99, 101, 34, 58, 34>>

\* the members of an object text, separated by commas
JoinMembers(members) ==
    IF Len(members) = 0 THEN <<>>
    ELSE IF Len(members) = 1 THEN members[1]
    ELSE IF Len(members) = 2 THEN members[1] \o <<44>> \o members[2]
    ELSE members[1] \o <<44>> \o members[2] \o <<44>> \o members[3]

\* JSON.stringify(payload): {"iat":..,"exp":..,"nonce":".."}, a member that
\* is undefined is left out
JSONStringify(payload) ==
    LET members ==
            (IF payload.iat # 0 THEN <<KeyIat \o Digits(payload.iat)>> ELSE <<>>)
            \o (IF payload.exp # 0 THEN <<KeyExp \o Digits(payload.exp)>> ELSE <<>>)
            \o (IF payload.nonce # <<>> THEN <<KeyNonce \o payload.nonce \o <<34>>>>
                ELSE <<>>)
    IN  <<123>> \o JoinMembers(members) \o <<125>>

\* a text that is no JSON
NoText == <<123>>

\* JSON.parse threw
NotJSON == [json |-> FALSE, payload |-> NoPayload]

\* the text after a comma it may begin with
SkipComma(input) ==
    Bind(input, LAMBDA text : IF text # <<>> /\ Head(text) = 44 THEN Tail(text) ELSE text)

\* a member `key` with a number at the start of a text, if there is one:
\* [has, digits, rest: the text after it]
NumberMember(input, key) ==
    Bind(input, LAMBDA text :
        IF ~StartsWith(text, key) THEN [has |-> FALSE, digits |-> <<>>, rest |-> text]
        ELSE Bind(DigitRun(Drop(text, Len(key))), LAMBDA digits :
                [has |-> TRUE, digits |-> digits,
                 rest |-> SkipComma(Drop(text, Len(key) + Len(digits)))]))

\* a member `key` with a string at the start of a text, if there is one:
\* [has, chars, rest: the text after its closing quote]
StringMember(input, key) ==
    Bind(input, LAMBDA text :
        IF ~StartsWith(text, key) THEN [has |-> FALSE, chars |-> <<>>, rest |-> text]
        ELSE Bind(UpToQuote(Drop(text, Len(key))), LAMBDA chars :
                [has |-> TRUE, chars |-> chars,
                 rest |-> Drop(text, Len(key) + Len(chars) + 1)]))

\* JSON.parse(text), for the object texts with members iat, exp, nonce in
\* this order: [json: it parsed, payload]
JSONParseState(input) ==
    Bind(input, LAMBDA text :
        IF Len(text) < 2 \/ text[1] # 123 \/ text[Len(text)] # 125 THEN NotJSON
        ELSE Bind(NumberMember(SubSeq(text, 2, Len(text) - 1), KeyIat), LAMBDA iat :
             Bind(NumberMember(iat.rest, KeyExp), LAMBDA exp :
             Bind(StringMember(exp.rest, KeyNonce), LAMBDA nonce :
                IF \/ nonce.rest # <<>>
                   \/ (iat.has /\ iat.digits = <<>>)
                   \/ (exp.has /\ exp.digits = <<>>)
                THEN NotJSON
                ELSE [json |-> TRUE,
                      payload |-> [iat |-> NumberOf(iat.digits),
                                   exp |-> NumberOf(exp.digits),
                                   nonce |-> nonce.chars]]))))

signHmacSha256(data, secret) ==
    [kind |-> "sig", key |-> secret, of |-> data.kind, body |-> data.body, alt |-> 0]

\* the signature with one of its characters changed
Altered(signature) == [signature EXCEPT !.alt = 1]

\* length of a piece in bytes: a base64url SHA-256 digest has 43
PartLength(part) ==
    IF part.kind = "sig" THEN 43
    ELSE IF part.kind = "b64" THEN Len(part.body)
    ELSE IF part.kind = "junk" THEN 6
    ELSE 0

\* (mutant) only the lengths are compared
safeEqual_LengthOnly(a, b) == PartLength(a) = PartLength(b)

safeEqual(a, b) ==
    IF PartLength(a) # PartLength(b) THEN FALSE
    ELSE a = b

\* randomNonce(), when the n-th draw of random bytes is made
randomNonce(n) == base64UrlEncode(<<250 + n, 255 - n, 62 + n>>).body

\* lines 18-23: the payload of a token minted at Date.now() = at
StatePayload(at, nonce) ==
    LET iat == at \div 1000
    IN  [iat |-> iat, exp |-> iat + STATE_TTL_SECONDS, nonce |-> nonce]

\* the seconds at which something happens: the start, and the instants
\* around the end of the life of a state token minted at the start
ClockTimes == {1} \cup {STATE_TTL_SECONDS + t : t \in 0..MaxClock}

\* createOAuthStateToken at Date.now() = at, with the nonce drawn
createOAuthStateToken(at, nonce) ==
    LET payload == StatePayload(at, nonce)
        encodedPayload == base64UrlEncode(JSONStringify(payload))
        signature == signHmacSha256(encodedPayload, OAUTH_STATE_SECRET)
    IN  <<encodedPayload, signature>>

\* a state token whose payload is `text`, signed with the server's secret
SignedState(text) ==
    <<base64UrlEncode(text), signHmacSha256(base64UrlEncode(text), OAUTH_STATE_SECRET)>>

\* tokens the server would not mint, with a payload signed with the
\* server's secret: no JSON, no exp, no iat (and exp in the past), no nonce;
\* and a payload without exp signed with another secret (computed once)
OddStates ==
    [form \in {"nojson", "noexp", "noiat", "nononce", "noexp_resigned"} |->
        CASE form = "nojson" -> SignedState(NoText)
          [] form = "noexp" ->
                SignedState(JSONStringify([iat |-> 1, exp |-> 0, nonce |-> randomNonce(1)]))
          [] form = "noiat" ->
                SignedState(JSONStringify([iat |-> 0, exp |-> 1, nonce |-> randomNonce(1)]))
          [] form = "nononce" ->
                SignedState(JSONStringify([iat |-> 1, exp |-> 601, nonce |-> <<>>]))
          [] form = "noexp_resigned" ->
                Bind(base64UrlEncode(JSONStringify(
                        [iat |-> 1, exp |-> 0, nonce |-> randomNonce(1)])),
                     LAMBDA part : <<part, signHmacSha256(part, OtherSecret)>>)]

\* the tokens createOAuthStateToken returns at the instants of the clock,
\* by instant and draw (computed once)
MintTable ==
    [at \in {t * 1000 : t \in ClockTimes}, n \in 1..MaxStates |->
        createOAuthStateToken(at, randomNonce(n))]

\* what the payload pieces of these tokens decode and parse to (computed
\* once)
ParseTable ==
    [part \in {MintTable[x][1] : x \in DOMAIN MintTable}
                \cup {OddStates[f][1] : f \in DOMAIN OddStates} |->
        JSONParseState(base64UrlDecode(part))]

\* JSON.parse(base64UrlDecode(encodedPayload).toString("utf8"))
DecodeAndParse(part) ==
    Bind(ParseTable, LAMBDA table :
        IF part \in DOMAIN table THEN table[part]
        ELSE JSONParseState(base64UrlDecode(part)))

\* verifyOAuthStateToken returned the payload
Verified(payload, trace) ==
    [ok |-> TRUE, error |-> "", payload |-> payload, trace |-> trace]

\* verifyOAuthStateToken threw
Rejected(error, trace) ==
    [ok |-> FALSE, error |-> error, payload |-> NoPayload, trace |-> trace]

NoVerdict == [ok |-> FALSE, error |-> "", payload |-> NoPayload, trace |-> <<>>]

\* (mutant) a token is rejected from the second its exp names
verifyOAuthStateToken_ExpiresEarly(token, secret, at) ==
    LET encodedPayload == IF Len(token) >= 1 THEN token[1] ELSE EmptyPart
        signature == IF Len(token) >= 2 THEN token[2] ELSE EmptyPart
    IN  IF encodedPayload.kind = "empty" \/ signature.kind = "empty"
        THEN Rejected("Malformed state token", <<>>)
        ELSE IF ~safeEqual(signature, signHmacSha256(encodedPayload, secret))
        THEN Rejected("Invalid state signature", <<"COMPARED">>)
        ELSE Bind(DecodeAndParse(encodedPayload), LAMBDA parsed :
            LET payload == parsed.payload
            IN  IF ~parsed.json
                THEN Rejected("SyntaxError", <<"COMPARED", "DECODED">>)
                ELSE IF payload.exp = 0 \/ payload.iat = 0 \/ payload.nonce = <<>>
                THEN Rejected("Malformed state payload",
                              <<"COMPARED", "DECODED", "PARSED">>)
                ELSE IF payload.exp <= at \div 1000
                THEN Rejected("State token expired",
                              <<"COMPARED", "DECODED", "PARSED", "EXPIRY">>)
                ELSE Verified(payload, <<"COMPARED", "DECODED", "PARSED", "EXPIRY">>))

\* (mutant) the payload is decoded and checked before the signatures are
\* compared
verifyOAuthStateToken_PayloadFirst(token, secret, at) ==
    LET encodedPayload == IF Len(token) >= 1 THEN token[1] ELSE EmptyPart
        signature == IF Len(token) >= 2 THEN token[2] ELSE EmptyPart
    IN  IF encodedPayload.kind = "empty" \/ signature.kind = "empty"
        THEN Rejected("Malformed state token", <<>>)
        ELSE Bind(DecodeAndParse(encodedPayload), LAMBDA parsed :
            LET payload == parsed.payload
            IN  IF ~parsed.json
                THEN Rejected("SyntaxError", <<"DECODED">>)
                ELSE IF payload.exp = 0 \/ payload.iat = 0 \/ payload.nonce = <<>>
                THEN Rejected("Malformed state payload", <<"DECODED", "PARSED">>)
                ELSE IF ~safeEqual(signature, signHmacSha256(encodedPayload, secret))
                THEN Rejected("Invalid state signature",
                              <<"DECODED", "PARSED", "COMPARED">>)
                ELSE IF payload.exp < at \div 1000
                THEN Rejected("State token expired",
                              <<"DECODED", "PARSED", "COMPARED", "EXPIRY">>)
                ELSE Verified(payload, <<"DECODED", "PARSED", "COMPARED", "EXPIRY">>))

\* verifyOAuthStateToken(token) with the secret of the environment, at
\* Date.now() = at; trace lists the stages it went through (history)
verifyOAuthStateToken(token, secret, at) ==
    LET \* const [encodedPayload, signature] = token.split(".")
        encodedPayload == IF Len(token) >= 1 THEN token[1] ELSE EmptyPart
        signature == IF Len(token) >= 2 THEN token[2] ELSE EmptyPart
    IN  IF encodedPayload.kind = "empty" \/ signature.kind = "empty"
        THEN Rejected("Malformed state token", <<>>)
        ELSE IF ~safeEqual(signature, signHmacSha256(encodedPayload, secret))
        THEN Rejected("Invalid state signature", <<"COMPARED">>)
        ELSE Bind(DecodeAndParse(encodedPayload), LAMBDA parsed :
            LET payload == parsed.payload
                nowSec == at \div 1000
            IN  IF ~parsed.json
                THEN Rejected("SyntaxError", <<"COMPARED", "DECODED">>)
                ELSE IF payload.exp = 0 \/ payload.iat = 0 \/ payload.nonce = <<>>
                THEN Rejected("Malformed state payload",
                              <<"COMPARED", "DECODED", "PARSED">>)
                ELSE IF payload.exp < nowSec
                THEN Rejected("State token expired",
                              <<"COMPARED", "DECODED", "PARSED", "EXPIRY">>)
                ELSE Verified(payload, <<"COMPARED", "DECODED", "PARSED", "EXPIRY">>))

\* errorHtml(message, status)
Html(status, message) == [status |-> status, body |-> message]

\* NextResponse.redirect(new URL("/connections", ...))
Redirect == [status |-> 307, body |-> "/connections"]

\* no state parameter in the query (or an empty one)
NoState == <<>>

\* how the state parameter of a request was made: from the token minted at
\* `at` with draw `n` (as it is, or changed), or from nothing
NoStateQuery == [form |-> "none", at |-> 0, n |-> 0]

NoCallback ==
    [pc |-> "idle", code |-> FALSE, state |-> NoStateQuery, at |-> 0, verdict |-> NoVerdict,
     data |-> [token |-> NoTokenRow, lastRefreshedAt |-> 0],
     resp |-> NoResponse, fetches |-> 0, created |-> 0]

(***************************************************************************)
(* src/lib/env.ts: the required variables and their getters, and the       *)
(* getters each route calls, in the order it calls them.                   *)
(***************************************************************************)
requiredServerVars ==
    {"DATABASE_URL", "JOBBER_CLIENT_ID", "JOBBER_CLIENT_SECRET", "JOBBER_REDIRECT_URI",
     "OAUTH_STATE_SECRET", "APP_BASE_URL"}

\* requireEnv(name) with process.env holding the variables of `environment`
requireEnv(name, environment) ==
    IF name \in environment THEN [ok |-> TRUE, error |-> ""]
    ELSE [ok |-> FALSE, error |-> "Missing required environment variable"]

Routes == {"webhook", "connect", "callback", "refresh", "disconnect"}

\* the getters of env a request calls on its way to a redirect or a 200:
\* POST /webhooks/jobber with a signature header (webhook.ts 10), GET
\* /jobber/connect (oauth-state.ts 26, route.ts 12-13), GET /jobber/callback
\* (oauth-state.ts 38, route.ts 52-55, 91), POST .../refresh (token.ts
\* 52-53, route.ts 26), POST .../disconnect (route.ts 45)
RouteReads(route) ==
    CASE route = "webhook" -> <<"JOBBER_CLIENT_SECRET">>
      [] route = "connect" ->
            <<"OAUTH_STATE_SECRET", "JOBBER_CLIENT_ID", "JOBBER_REDIRECT_URI">>
      [] route = "callback" ->
            <<"OAUTH_STATE_SECRET", "JOBBER_CLIENT_ID", "JOBBER_CLIENT_SECRET",
              "JOBBER_REDIRECT_URI", "APP_BASE_URL">>
      [] route = "refresh" -> <<"JOBBER_CLIENT_ID", "JOBBER_CLIENT_SECRET", "APP_BASE_URL">>
      [] route = "disconnect" -> <<"APP_BASE_URL">>

NotHandled == [route |-> "none", started |-> FALSE, read |-> 0, resp |-> NoResponse]

\* a request to `route` is handled with process.env = environment: the
\* handler starts and runs until a getter throws.  The throw of
\* OAUTH_STATE_SECRET in the callback is inside the try of lines 38-43 and
\* becomes the 401 page; every other throw leaves the handler.
HandleRequest(route, environment) ==
    LET reads == RouteReads(route)
        missing == {i \in 1..Len(reads) : ~requireEnv(reads[i], environment).ok}
        first == CHOOSE i \in missing : \A j \in missing : i <= j
    IN  IF missing = {}
        THEN [route |-> route, started |-> TRUE, read |-> Len(reads),
              resp |-> [status |-> 0, body |-> "goes on"]]
        ELSE [route |-> route, started |-> TRUE, read |-> first - 1,
              resp |-> IF route = "callback" /\ reads[first] = "OAUTH_STATE_SECRET"
                       THEN Html(401, requireEnv(reads[first], environment).error)
                       ELSE Thrown(requireEnv(reads[first], environment).error)]

\* the server starts: env.ts is loaded, which defines requiredServerVars,
\* requireEnv and the getters and calls none of them (lines 1-27)
Env_Start ==
    /\ server = "down"
    /\ server' = "serving"
    /\ UNCHANGED <<processEnv, handled, minted, cb, tvars, wvars>>

\* a request reaches one of the routes of the running server
Env_Handle(r) ==
    /\ server = "serving"
    /\ handled[r] = NotHandled
    /\ \E route \in Routes : handled' = [handled EXCEPT ![r] = HandleRequest(route, processEnv)]
    /\ UNCHANGED <<processEnv, server, minted, cb, tvars, wvars>>

\* the environment is complete and the server is running
EnvReady ==
    /\ processEnv = requiredServerVars
    /\ server = "serving"
    /\ handled = [r \in Requests |-> NotHandled]

OAuthIdle ==
    /\ minted = {}
    /\ cb = [k \in Callbacks |-> NoCallback]

TokenInit ==
    /\ connections = [i \in ConnIds |-> NoConnection]
    /\ tokens = [i \in ConnIds |-> NoTokenRow]
    /\ nextConnId = 1
    /\ now = 0
    /\ issued = 0
    /\ tpc = [c \in Calls |-> "idle"]
    /\ tkind = [c \in Calls |-> "none"]
    /\ targ = [c \in Calls |-> 0]
    /\ trec = [c \in Calls |-> NoLookup]
    /\ texisting = [c \in Calls |-> NoTokenRow]
    /\ tfetch = [c \in Calls |-> NetworkError]
    /\ tdata = [c \in Calls |-> NoData]
    /\ tresult = [c \in Calls |-> NoResult]
    /\ thist = [c \in Calls |-> NoHistory]

Init == WebhookInit /\ TokenInit /\ OAuthIdle /\ EnvReady

\* The server is started with any part of the required variables set.
EnvInit ==
    /\ WebhookInit /\ TokenInit /\ OAuthIdle
    /\ processEnv \in SUBSET requiredServerVars
    /\ server = "down"
    /\ handled = [r \in Requests |-> NotHandled]

EnvNext ==
    \/ Env_Start
    \/ \E r \in Requests : Env_Handle(r)

SpecEnv == EnvInit /\ [][EnvNext]_vars

\* the clock advances by a second
Tick ==
    /\ now < MaxClock * 1000
    /\ now' = now + 1000
    /\ UNCHANGED <<storevars, issued, callvars>>
    /\ UNCHANGED <<wvars, ovars>>

(***************************************************************************)
(* GET /jobber/callback (src/app/jobber/callback/route.ts): the path that  *)
(* reaches the store, after the state was verified and the code exchanged. *)
(***************************************************************************)
\* (mutant) expires_in is added as it comes, without the factor 1000
CreatedToken_SecondsAsMillis(resp, at) ==
    [exists |-> TRUE,
     accessToken |-> resp.access_token,
     refreshToken |-> resp.refresh_token,
     expiresAt |-> at + resp.expires_in,
     scopes |-> IF Truthy(resp.scope) THEN SplitScopes(resp.scope.s) ELSE <<>>,
     expiresFrom |-> resp.access_token.n]

\* lines 71-82: the Token row of the nested create, from the answer received
\* at `at`
CreatedToken(resp, at) ==
    [exists |-> TRUE,
     accessToken |-> resp.access_token,
     refreshToken |-> resp.refresh_token,
     expiresAt |-> at + resp.expires_in * 1000,
     scopes |-> IF Truthy(resp.scope) THEN SplitScopes(resp.scope.s) ELSE <<>>,
     expiresFrom |-> resp.access_token.n]

Callback_Create ==
    /\ nextConnId \in DOMAIN connections
    /\ issued < MaxIssued
    /\ \E resp \in ProviderAnswers(issued + 1) :
          /\ resp.net /\ resp.ok
          /\ resp.access_token # NoToken /\ resp.refresh_token # NoToken
          /\ tokens' = [tokens EXCEPT ![nextConnId] = CreatedToken(resp, now)]
          /\ connections' = [connections EXCEPT ![nextConnId] =
                [exists |-> TRUE, lastRefreshedAt |-> now, lastRefreshBy |-> issued + 1]]
    /\ nextConnId' = nextConnId + 1
    /\ issued' = issued + 1
    /\ UNCHANGED <<now, callvars>>
    /\ UNCHANGED <<wvars, ovars>>

(***************************************************************************)
(* POST /api/connections/[id]/disconnect                                   *)
(* (src/app/api/connections/[id]/refresh/route.ts, lines 29-46)            *)
(***************************************************************************)
\* the Token table after Connection id was deleted: the delete cascades
CascadeDelete(rows, id) == [rows EXCEPT ![id] = NoTokenRow]

\* (mutant) the delete removes the Connection and leaves its Token
Disconnect_ConnectionOnly(id) ==
    /\ connections[id].exists
    /\ connections' = [connections EXCEPT ![id] = NoConnection]
    /\ UNCHANGED <<tokens, nextConnId, now, issued, callvars>>
    /\ UNCHANGED <<wvars, ovars>>

\* (mutant) the delete also removes the WebhookEvents that name a Connection
Disconnect_DeletesEvents(id) ==
    /\ connections[id].exists
    /\ connections' = [connections EXCEPT ![id] = NoConnection]
    /\ tokens' = CascadeDelete(tokens, id)
    /\ webhookEvents' = {e \in webhookEvents : e.connectionId = Undefined}
    /\ UNCHANGED <<nextConnId, now, issued, callvars>>
    /\ UNCHANGED <<jobs, wpc, wreq, wloc, wresp, wtrace, wcaught, wafter, ovars>>

\* prisma.connection.delete; the Token row goes with its Connection
Disconnect(id) ==
    /\ connections[id].exists
    /\ connections' = [connections EXCEPT ![id] = NoConnection]
    /\ tokens' = CascadeDelete(tokens, id)
    /\ UNCHANGED <<nextConnId, now, issued, callvars>>
    /\ UNCHANGED <<wvars, ovars>>

(***************************************************************************)
(* GET /jobber/connect (src/app/jobber/connect/route.ts) and               *)
(* GET /jobber/callback (src/app/jobber/callback/route.ts), step by step.  *)
(***************************************************************************)
\* time passes, to one of the later instants
Elapse ==
    /\ \E t \in ClockTimes : t * 1000 > now /\ now' = t * 1000
    /\ UNCHANGED <<storevars, issued, callvars, ovars>>
    /\ UNCHANGED wvars

\* GET /jobber/connect: a state token is minted and sent to the browser
Connect_GET ==
    /\ Cardinality(minted) < MaxStates
    /\ minted' = minted \cup {[at |-> now, n |-> Cardinality(minted) + 1]}
    /\ UNCHANGED <<cb, tvars, wvars, evars>>

\* The state parameters a request may carry: none; a minted token as it is,
\* with ".suffix" appended, without its signature, with one character of the
\* signature changed, signed with another secret; signed tokens whose
\* payload is no JSON or has no exp.
PresentedStates ==
    {NoStateQuery}
    \cup {[form |-> f, at |-> m.at, n |-> m.n] :
             f \in {"minted", "suffix", "unsigned", "altered", "resigned"}, m \in minted}
    \cup {[form |-> f, at |-> 0, n |-> 0] : f \in {"nojson", "noexp"}}

\* the pieces of the state parameter
StateOf(q) ==
    IF q.form = "none" THEN NoState
    ELSE IF q.form \in DOMAIN OddStates THEN OddStates[q.form]
    ELSE Bind(MintTable[q.at, q.n], LAMBDA m :
            CASE q.form = "minted" -> m
              [] q.form = "suffix" -> m \o <<JunkPart>>
              [] q.form = "unsigned" -> <<m[1]>>
              [] q.form = "altered" -> <<m[1], Altered(m[2])>>
              [] q.form = "resigned" -> <<m[1], signHmacSha256(m[1], OtherSecret)>>)

\* the queries of a request: the code present, or missing
CallbackQueries ==
    {[code |-> TRUE, state |-> st] : st \in PresentedStates}
    \cup {[code |-> FALSE, state |-> st] :
             st \in {q \in PresentedStates : q.form \in {"none", "minted"}}}

\* (mutant) the state is verified outside the try block
CallbackSync_NoCatch(code, state, at) ==
    IF ~code \/ state = NoState
    THEN [next |-> "done", resp |-> Html(400, "Missing code or state"), verdict |-> NoVerdict]
    ELSE Bind(verifyOAuthStateToken(state, OAUTH_STATE_SECRET, at), LAMBDA v :
            IF ~v.ok
            THEN [next |-> "done", resp |-> Thrown(v.error), verdict |-> v]
            ELSE [next |-> "exchange", resp |-> NoResponse, verdict |-> v])

\* lines 29-42, which run without an await: the parameters are read and the
\* state is verified  [next: the handler's next position, resp, verdict]
CallbackSync(code, state, at) ==
    IF ~code \/ state = NoState
    THEN [next |-> "done", resp |-> Html(400, "Missing code or state"), verdict |-> NoVerdict]
    ELSE Bind(verifyOAuthStateToken(state, OAUTH_STATE_SECRET, at), LAMBDA v :
            IF ~v.ok
            THEN [next |-> "done", resp |-> Html(401, v.error), verdict |-> v]
            ELSE [next |-> "exchange", resp |-> NoResponse, verdict |-> v])

\* (mutant) a state that an earlier request presented is refused
Callback_ReceiveFrom_OneUse(k, queries) ==
    /\ cb[k].pc = "idle"
    /\ \A p \in DOMAIN cb : p < k => cb[p].pc # "idle"
    /\ \E q \in queries :
        \E r \in {IF \E p \in DOMAIN cb : cb[p].pc # "idle" /\ cb[p].state = q.state
                  THEN [next |-> "done", resp |-> Html(401, "State already used"),
                        verdict |-> NoVerdict]
                  ELSE CallbackSync(q.code, StateOf(q.state), now)} :
              cb' = [cb EXCEPT ![k] = [@ EXCEPT !.pc = r.next, !.code = q.code,
                                                !.state = q.state, !.at = now,
                                                !.verdict = r.verdict,
                                                !.resp = r.resp]]
    /\ UNCHANGED <<minted, tvars, wvars, evars>>

\* lines 28-42: the request arrives and the handler runs up to the fetch, for a
\* request with one of `queries`
Callback_ReceiveFrom(k, queries) ==
    /\ cb[k].pc = "idle"
    /\ \A p \in DOMAIN cb : p < k => cb[p].pc # "idle"
    /\ \E q \in queries :
        \E r \in {CallbackSync(q.code, StateOf(q.state), now)} :
              cb' = [cb EXCEPT ![k] = [@ EXCEPT !.pc = r.next, !.code = q.code,
                                                !.state = q.state, !.at = now,
                                                !.verdict = r.verdict,
                                                !.resp = r.resp]]
    /\ UNCHANGED <<minted, tvars, wvars, evars>>

\* lines 28-42, with any of the queries a request may carry
Callback_Receive(k) == Callback_ReceiveFrom(k, CallbackQueries)

\* the answer fails the check of line 64
ExchangeFailed(resp) ==
    ~resp.ok \/ resp.access_token = NoToken \/ resp.refresh_token = NoToken

\* lines 44-72: the code is exchanged at the token endpoint, the answer
\* (one of `answers`) is checked, and the data of the create is computed
Callback_ExchangeFrom(k, answers) ==
    /\ cb[k].pc = "exchange"
    /\ issued < MaxIssued
    /\ \E resp \in answers :
          /\ issued' = IF Issues(resp) THEN issued + 1 ELSE issued
          /\ cb' = [cb EXCEPT ![k] =
                IF ~resp.net
                THEN [@ EXCEPT !.pc = "done", !.fetches = @ + 1,
                               !.resp = Thrown("fetch failed")]
                ELSE IF ExchangeFailed(resp)
                THEN [@ EXCEPT !.pc = "done", !.fetches = @ + 1,
                               !.resp = Html(400, "Token exchange failed")]
                ELSE [@ EXCEPT !.pc = "create", !.fetches = @ + 1,
                               !.data = [token |-> CreatedToken(resp, now),
                                         lastRefreshedAt |-> now]]]
    /\ UNCHANGED <<minted, storevars, now, callvars, wvars, evars>>

\* lines 44-72, with any answer of the token endpoint
Callback_Exchange(k) == Callback_ExchangeFrom(k, ProviderAnswers(issued + 1))

\* (mutant) the Connection is created first, its Token in a second call
Callback_Persist_ConnectionOnly(k) ==
    /\ cb[k].pc = "create"
    /\ nextConnId \in DOMAIN connections
    /\ connections' = [connections EXCEPT ![nextConnId] =
          [exists |-> TRUE, lastRefreshedAt |-> cb[k].data.lastRefreshedAt,
           lastRefreshBy |-> cb[k].data.token.accessToken.n]]
    /\ nextConnId' = nextConnId + 1
    /\ cb' = [cb EXCEPT ![k] = [@ EXCEPT !.pc = "done", !.resp = Redirect,
                                        !.created = nextConnId]]
    /\ UNCHANGED <<tokens, minted, now, issued, callvars, wvars, evars>>

\* lines 75-91: prisma.connection.create with the nested token create (one
\* call: both rows or none), and the redirect
Callback_Persist(k) ==
    /\ cb[k].pc = "create"
    /\ nextConnId \in DOMAIN connections
    /\ tokens' = [tokens EXCEPT ![nextConnId] = cb[k].data.token]
    /\ connections' = [connections EXCEPT ![nextConnId] =
          [exists |-> TRUE, lastRefreshedAt |-> cb[k].data.lastRefreshedAt,
           lastRefreshBy |-> cb[k].data.token.accessToken.n]]
    /\ nextConnId' = nextConnId + 1
    /\ cb' = [cb EXCEPT ![k] = [@ EXCEPT !.pc = "done", !.resp = Redirect,
                                        !.created = nextConnId]]
    /\ UNCHANGED <<minted, now, issued, callvars, wvars, evars>>

\* lines 75-88: the create fails; nothing catches it
Callback_PersistFails(k) ==
    /\ cb[k].pc = "create"
    /\ cb' = [cb EXCEPT ![k] = [@ EXCEPT !.pc = "done", !.resp = Thrown(StoreFailure)]]
    /\ UNCHANGED <<minted, tvars, wvars, evars>>

OAuthInit ==
    /\ WebhookInit
    /\ OAuthIdle
    /\ EnvReady
    /\ connections = [i \in ConnIds |-> NoConnection]
    /\ tokens = [i \in ConnIds |-> NoTokenRow]
    /\ nextConnId = 1
    /\ now = 1000
    /\ issued = 0
    /\ tpc = [c \in Calls |-> "idle"]
    /\ tkind = [c \in Calls |-> "none"]
    /\ targ = [c \in Calls |-> 0]
    /\ trec = [c \in Calls |-> NoLookup]
    /\ texisting = [c \in Calls |-> NoTokenRow]
    /\ tfetch = [c \in Calls |-> NetworkError]
    /\ tdata = [c \in Calls |-> NoData]
    /\ tresult = [c \in Calls |-> NoResult]
    /\ thist = [c \in Calls |-> NoHistory]

OAuthNext ==
    \/ Elapse
    \/ Connect_GET
    \/ \E id \in ConnIds : Disconnect(id)
    \/ \E k \in Callbacks :
          \/ Callback_Receive(k)
          \/ Callback_Exchange(k)
          \/ Callback_Persist(k)
          \/ Callback_PersistFails(k)

SpecOAuth == OAuthInit /\ [][OAuthNext]_vars

(***************************************************************************)
(* verifyOAuthStateToken by itself: it is called at some instant with one  *)
(* of the tokens a caller can build from what was minted, or with one of   *)
(* the tokens the server would not mint, and its outcome is recorded.      *)
(***************************************************************************)
VerifyInputs ==
    {[form |-> f, at |-> m.at, n |-> m.n] :
        f \in {"minted", "suffix", "unsigned", "altered", "resigned"}, m \in minted}
    \cup {[form |-> f, at |-> 0, n |-> 0] : f \in DOMAIN OddStates}

Verify_Call(k) ==
    /\ cb[k].pc = "idle"
    /\ \E q \in VerifyInputs :
          cb' = [cb EXCEPT ![k] =
                    [@ EXCEPT !.pc = "done", !.code = TRUE, !.state = q, !.at = now,
                              !.verdict = verifyOAuthStateToken(StateOf(q),
                                                                OAUTH_STATE_SECRET, now)]]
    /\ UNCHANGED <<minted, tvars, wvars, evars>>

VerifyNext ==
    \/ Elapse
    \/ Connect_GET
    \/ \E k \in Callbacks : Verify_Call(k)

SpecVerify == OAuthInit /\ [][VerifyNext]_vars

(***************************************************************************)
(* src/lib/token.ts                                                        *)
(***************************************************************************)
\* (mutant) the boundary itself does not refresh
shouldRefresh_Strict(expiresAt, at) == expiresAt - at < REFRESH_WINDOW_MS

shouldRefresh(expiresAt, at) == expiresAt - at <= REFRESH_WINDOW_MS

\* (mutant) a failed refresh falls back to the token the caller had read
OnRefreshThrow_ReturnsStale(kind, row, error) ==
    IF kind = "getValidAccessToken" THEN Returned(row.accessToken)
    ELSE Responded("400")

\* what a call ends in when refreshAccessToken throws: getValidAccessToken
\* lets the error through, the manual refresh route answers 400
OnRefreshThrow(kind, row, error) ==
    IF kind = "getValidAccessToken" THEN Threw(error)
    ELSE Responded("400")

\* what a call ends in when refreshAccessToken returns updatedToken
OnRefreshReturn(kind, updatedToken) ==
    IF kind = "getValidAccessToken" THEN Returned(updatedToken.accessToken)
    ELSE Responded("redirect")

\* a call begins: getValidAccessToken(connectionId), or POST .../refresh
CallBegins(c, kind, id) ==
    /\ tpc[c] = "idle"
    /\ \A p \in DOMAIN tpc : p < c => tpc[p] # "idle"
    /\ tkind' = [tkind EXCEPT ![c] = kind]
    /\ targ' = [targ EXCEPT ![c] = id]

\* getValidAccessToken, lines 21-27: findUnique, and the throw when no row
GetValid_Find(c) ==
    /\ \E id \in ConnIds : CallBegins(c, "getValidAccessToken", id)
    /\ trec' = [trec EXCEPT ![c] = [@ EXCEPT !.row = tokens[targ'[c]],
                                            !.known = nextConnId]]
    /\ IF tokens[targ'[c]].exists
       THEN tpc' = [tpc EXCEPT ![c] = "check"] /\ UNCHANGED tresult
       ELSE /\ tpc' = [tpc EXCEPT ![c] = "done"]
            /\ tresult' = [tresult EXCEPT ![c] = Threw("No token found")]
    /\ UNCHANGED <<storevars, now, issued, texisting, tfetch, tdata, thist>>
    /\ UNCHANGED <<wvars, ovars>>

\* getValidAccessToken, lines 29-34: the cached token, or on to the refresh
GetValid_Check(c) ==
    /\ tpc[c] = "check"
    /\ IF ~shouldRefresh(trec[c].row.expiresAt, now)
       THEN /\ trec' = [trec EXCEPT ![c] = [@ EXCEPT !.at = now, !.path = "cached"]]
            /\ tpc' = [tpc EXCEPT ![c] = "done"]
            /\ tresult' = [tresult EXCEPT ![c] = Returned(trec[c].row.accessToken)]
       ELSE /\ trec' = [trec EXCEPT ![c] = [@ EXCEPT !.at = now, !.path = "refresh"]]
            /\ tpc' = [tpc EXCEPT ![c] = "find"]
            /\ UNCHANGED tresult
    /\ UNCHANGED <<storevars, now, issued, tkind, targ, texisting, tfetch, tdata, thist>>
    /\ UNCHANGED <<wvars, ovars>>

\* the manual refresh route, refresh/route.ts lines 12-20
ManualRefresh_Find(c) ==
    /\ \E id \in ConnIds : CallBegins(c, "manualRefresh", id)
    /\ trec' = [trec EXCEPT ![c] = [@ EXCEPT !.row = tokens[targ'[c]], !.path = "refresh",
                                            !.known = nextConnId]]
    /\ IF tokens[targ'[c]].exists
       THEN tpc' = [tpc EXCEPT ![c] = "find"] /\ UNCHANGED tresult
       ELSE /\ tpc' = [tpc EXCEPT ![c] = "done"]
            /\ tresult' = [tresult EXCEPT ![c] = Responded("404")]
    /\ UNCHANGED <<storevars, now, issued, texisting, tfetch, tdata, thist>>
    /\ UNCHANGED <<wvars, ovars>>

\* refreshAccessToken throws: the call ends
Refresh_Throws(c, error) ==
    /\ tpc' = [tpc EXCEPT ![c] = "done"]
    /\ tresult' = [tresult EXCEPT ![c] = OnRefreshThrow(tkind[c], trec[c].row, error)]

\* refreshAccessToken, lines 38-43: findUnique, and the throw when no row
Refresh_Find(c) ==
    /\ tpc[c] = "find"
    /\ texisting' = [texisting EXCEPT ![c] = tokens[targ[c]]]
    /\ IF tokens[targ[c]].exists
       THEN tpc' = [tpc EXCEPT ![c] = "fetch"] /\ UNCHANGED tresult
       ELSE Refresh_Throws(c, "No token found")
    /\ UNCHANGED <<storevars, now, issued, tkind, targ, trec, tfetch, tdata, thist>>
    /\ UNCHANGED <<wvars, ovars>>

\* the response fails the check of line 64 (or never came)
RefreshFailed(resp) == ~resp.net \/ ~resp.ok \/ resp.access_token = NoToken

\* lines 70-81: the data of the update, from the response received at `at`
UpdateData(resp, refreshToken, existing, at) ==
    [accessToken |-> resp.access_token,
     refreshToken |-> IF resp.refresh_token # NoToken THEN resp.refresh_token
                      ELSE refreshToken,
     expiresAt |-> at + resp.expires_in * 1000,
     scopes |-> IF Truthy(resp.scope) THEN SplitScopes(resp.scope.s) ELSE existing.scopes,
     expiresFrom |-> resp.access_token.n]

\* (mutant) the timestamp of the Connection is written before the response
\* is looked at
Refresh_Fetch_StampsFirst(c) ==
    /\ tpc[c] = "fetch"
    /\ issued < MaxIssued
    /\ \E resp \in ProviderAnswers(issued + 1) :
          /\ tfetch' = [tfetch EXCEPT ![c] = resp]
          /\ issued' = IF Issues(resp) THEN issued + 1 ELSE issued
          /\ connections' = [connections EXCEPT ![targ[c]] =
                IF @.exists THEN [@ EXCEPT !.lastRefreshedAt = now] ELSE @]
          /\ thist' = [thist EXCEPT ![c] = [fetches |-> @.fetches + 1,
                                            wrote |-> @.wrote \cup {"Connection"}]]
          /\ IF RefreshFailed(resp)
             THEN Refresh_Throws(c, "Token refresh failed") /\ UNCHANGED tdata
             ELSE /\ tpc' = [tpc EXCEPT ![c] = "updateToken"]
                  /\ tdata' = [tdata EXCEPT ![c] =
                        UpdateData(resp, trec[c].row.refreshToken, texisting[c], now)]
                  /\ UNCHANGED tresult
    /\ UNCHANGED <<tokens, nextConnId, now, tkind, targ, trec, texisting>>
    /\ UNCHANGED <<wvars, ovars>>

\* lines 45-71: the refresh request, its answer (one of `answers`), and
\* the data of the update
Refresh_FetchFrom(c, answers) ==
    /\ tpc[c] = "fetch"
    /\ issued < MaxIssued
    /\ \E resp \in answers :
          /\ tfetch' = [tfetch EXCEPT ![c] = resp]
          /\ issued' = IF Issues(resp) THEN issued + 1 ELSE issued
          /\ thist' = [thist EXCEPT ![c] = [@ EXCEPT !.fetches = @ + 1]]
          /\ IF RefreshFailed(resp)
             THEN Refresh_Throws(c, "Token refresh failed") /\ UNCHANGED tdata
             ELSE /\ tpc' = [tpc EXCEPT ![c] = "updateToken"]
                  /\ tdata' = [tdata EXCEPT ![c] =
                        UpdateData(resp, trec[c].row.refreshToken, texisting[c], now)]
                  /\ UNCHANGED tresult
    /\ UNCHANGED <<storevars, now, tkind, targ, trec, texisting>>
    /\ UNCHANGED <<wvars, ovars>>

\* lines 45-71, with the answers of a provider whose tokens live two minutes
Refresh_Fetch(c) == Refresh_FetchFrom(c, ProviderAnswers(issued + 1))

\* (mutant) the update is a delta: scopes the answer did not name stay as stored
UpdatedToken_KeepsScopes(row, data) ==
    [exists |-> TRUE, accessToken |-> data.accessToken,
     refreshToken |-> data.refreshToken, expiresAt |-> data.expiresAt,
     scopes |-> row.scopes, expiresFrom |-> data.expiresFrom]

\* (mutant) the update leaves the stored expiry as it was
UpdatedToken_KeepsExpiry(row, data) ==
    [exists |-> TRUE, accessToken |-> data.accessToken,
     refreshToken |-> data.refreshToken, expiresAt |-> row.expiresAt,
     scopes |-> data.scopes, expiresFrom |-> row.expiresFrom]

\* lines 73-81: the row after prisma.token.update with `data`: the four
\* fields are overwritten in the one update
UpdatedToken(row, data) ==
    [exists |-> TRUE, accessToken |-> data.accessToken,
     refreshToken |-> data.refreshToken, expiresAt |-> data.expiresAt,
     scopes |-> data.scopes, expiresFrom |-> data.expiresFrom]

\* (mutant) the write is an upsert: a row that is gone is created again
Refresh_UpdateToken_Upserts(c) ==
    /\ tpc[c] = "updateToken"
    /\ tokens' = [tokens EXCEPT ![targ[c]] = UpdatedToken(@, tdata[c])]
    /\ tpc' = [tpc EXCEPT ![c] = "updateConnection"]
    /\ thist' = [thist EXCEPT ![c] = [@ EXCEPT !.wrote = @ \cup {"Token"}]]
    /\ UNCHANGED <<connections, nextConnId, now, issued, tkind, targ, trec, texisting,
                   tfetch, tdata, tresult>>
    /\ UNCHANGED <<wvars, ovars>>

\* lines 73-81: prisma.token.update
Refresh_UpdateToken(c) ==
    /\ tpc[c] = "updateToken"
    /\ tokens[targ[c]].exists
    /\ tokens' = [tokens EXCEPT ![targ[c]] = UpdatedToken(@, tdata[c])]
    /\ tpc' = [tpc EXCEPT ![c] = "updateConnection"]
    /\ thist' = [thist EXCEPT ![c] = [@ EXCEPT !.wrote = @ \cup {"Token"}]]
    /\ UNCHANGED <<connections, nextConnId, now, issued, tkind, targ, trec, texisting,
                   tfetch, tdata, tresult>>
    /\ UNCHANGED <<wvars, ovars>>

\* lines 73-81: prisma.token.update fails (the row is gone, or the store is down)
Refresh_UpdateTokenFails(c) ==
    /\ tpc[c] = "updateToken"
    /\ Refresh_Throws(c, IF tokens[targ[c]].exists THEN StoreFailure ELSE "P2025")
    /\ UNCHANGED <<storevars, now, issued, tkind, targ, trec, texisting, tfetch, tdata,
                   thist>>
    /\ UNCHANGED <<wvars, ovars>>

\* lines 83-90: prisma.connection.update, and the return of updatedToken
Refresh_UpdateConnection(c) ==
    /\ tpc[c] = "updateConnection"
    /\ connections[targ[c]].exists
    /\ connections' = [connections EXCEPT ![targ[c]] =
          [exists |-> TRUE, lastRefreshedAt |-> now,
           lastRefreshBy |-> tfetch[c].access_token.n]]
    /\ tpc' = [tpc EXCEPT ![c] = "done"]
    /\ tresult' = [tresult EXCEPT ![c] = OnRefreshReturn(tkind[c], tdata[c])]
    /\ thist' = [thist EXCEPT ![c] = [@ EXCEPT !.wrote = @ \cup {"Connection"}]]
    /\ UNCHANGED <<tokens, nextConnId, now, issued, tkind, targ, trec, texisting, tfetch,
                   tdata>>
    /\ UNCHANGED <<wvars, ovars>>

\* lines 83-87: prisma.connection.update fails
Refresh_UpdateConnectionFails(c) ==
    /\ tpc[c] = "updateConnection"
    /\ Refresh_Throws(c, IF connections[targ[c]].exists THEN StoreFailure ELSE "P2025")
    /\ UNCHANGED <<storevars, now, issued, tkind, targ, trec, texisting, tfetch, tdata,
                   thist>>
    /\ UNCHANGED <<wvars, ovars>>

TokenNext ==
    \/ Tick
    \/ Callback_Create
    \/ \E id \in ConnIds : Disconnect(id)
    \/ \E c \in Calls :
          \/ GetValid_Find(c)
          \/ GetValid_Check(c)
          \/ ManualRefresh_Find(c)
          \/ Refresh_Find(c)
          \/ Refresh_Fetch(c)
          \/ Refresh_UpdateToken(c)
          \/ Refresh_UpdateTokenFails(c)
          \/ Refresh_UpdateConnection(c)
          \/ Refresh_UpdateConnectionFails(c)

SpecToken == Init /\ [][TokenNext]_vars

\* the steps of call c that the runtime and the store take on their own: a
\* continuation that is ready runs, a store call returns
CallProceeds(c) ==
    \/ GetValid_Check(c)
    \/ Refresh_Find(c)
    \/ Refresh_UpdateToken(c)
    \/ Refresh_UpdateTokenFails(c)
    \/ Refresh_UpdateConnection(c)
    \/ Refresh_UpdateConnectionFails(c)

\* The credential store with its scheduling: every call keeps taking its own
\* steps.  Nothing is assumed of Refresh_Fetch: the fetch of token.ts 45-57
\* is given no signal and no timeout, so it ends when the provider answers
\* or the connection fails, and not before.
SpecTokenLive ==
    Init /\ [][TokenNext]_vars /\ \A c \in Calls : WF_vars(CallProceeds(c))

SpecWebhook == Init /\ [][WebhookNext]_vars

(***************************************************************************)
(* The credential store with a provider that may also issue a token that   *)
(* is expired on arrival (expires_in 0; line 70 takes any number).         *)
(***************************************************************************)
ExpiredOnArrival(n) == TokenResponse(TRUE, AccessToken(n), RefreshToken(n), 0, NoScope)

LifetimeNext ==
    \/ Tick
    \/ Callback_Create
    \/ \E id \in ConnIds : Disconnect(id)
    \/ \E c \in Calls :
          \/ GetValid_Find(c)
          \/ GetValid_Check(c)
          \/ ManualRefresh_Find(c)
          \/ Refresh_Find(c)
          \/ Refresh_FetchFrom(c, ProviderAnswers(issued + 1)
                                     \cup {ExpiredOnArrival(issued + 1)})
          \/ Refresh_UpdateToken(c)
          \/ Refresh_UpdateTokenFails(c)
          \/ Refresh_UpdateConnection(c)
          \/ Refresh_UpdateConnectionFails(c)

SpecLifetime == Init /\ [][LifetimeNext]_vars

(***************************************************************************)
(* Replays: the callbacks of Replayers come one after the other, each with *)
(* a valid code and a state token /jobber/connect minted, as it is; the    *)
(* store has room for a Connection of each.                                *)
(***************************************************************************)
\* what the token endpoint answers to a valid code
ValidCodeAnswers(n) ==
    {resp \in ProviderAnswers(n) : resp.net /\ ~ExchangeFailed(resp)}

ReplayQueries ==
    {[code |-> TRUE, state |-> [form |-> "minted", at |-> m.at, n |-> m.n]] : m \in minted}

ReplayInit ==
    /\ WebhookInit
    /\ EnvReady
    /\ minted = {}
    /\ cb = [k \in Replayers |-> NoCallback]
    /\ connections = [i \in Replayers |-> NoConnection]
    /\ tokens = [i \in Replayers |-> NoTokenRow]
    /\ nextConnId = 1
    /\ now = 1000
    /\ issued = 0
    /\ tpc = [c \in Calls |-> "idle"]
    /\ tkind = [c \in Calls |-> "none"]
    /\ targ = [c \in Calls |-> 0]
    /\ trec = [c \in Calls |-> NoLookup]
    /\ texisting = [c \in Calls |-> NoTokenRow]
    /\ tfetch = [c \in Calls |-> NetworkError]
    /\ tdata = [c \in Calls |-> NoData]
    /\ tresult = [c \in Calls |-> NoResult]
    /\ thist = [c \in Calls |-> NoHistory]

\* the next callback arrives when the one before it was answered
Replay_Receive(k) ==
    /\ \A p \in Replayers : p < k => cb[p].pc = "done"
    /\ Callback_ReceiveFrom(k, ReplayQueries)

ReplayNext ==
    \/ Elapse
    \/ Connect_GET
    \/ \E k \in Replayers :
          \/ Replay_Receive(k)
          \/ Callback_ExchangeFrom(k, ValidCodeAnswers(issued + 1))
          \/ Callback_Persist(k)
          \/ Callback_PersistFails(k)

SpecReplay == ReplayInit /\ [][ReplayNext]_vars

(***************************************************************************)
(* The receiver and the credential store side by side: deliveries of one   *)
(* signed event, duplicates from the second on, while a Connection is      *)
(* created, refreshed from the connections page and disconnected.          *)
(***************************************************************************)
\* the body of the event that is delivered
FrameBody == "{\"eventId\":\"e1\",\"connectionId\":\"c1\"}"

\* the event arrives, signed by the provider
Frame_Receive(d) ==
    /\ POST_Receive(d)
    /\ wreq'[d] = [raw |-> FrameBody, sig |-> computeWebhookSignature(FrameBody)]

\* the first of the calls
FirstCall(c) == \A p \in Calls : c <= p

FrameNext ==
    \/ \E d \in Deliveries :
          \/ Frame_Receive(d)
          \/ POST_CreateEvent(d)
          \/ POST_CreateEventDuplicate(d)
          \/ POST_CreateEventFails(d)
          \/ POST_CreateJob(d)
          \/ POST_CreateJobFails(d)
    \/ Callback_Create
    \/ \E id \in ConnIds : Disconnect(id)
    \/ \E c \in {x \in Calls : FirstCall(x)} :
          \/ ManualRefresh_Find(c)
          \/ Refresh_Find(c)
          \/ Refresh_Fetch(c)
          \/ Refresh_UpdateToken(c)
          \/ Refresh_UpdateTokenFails(c)
          \/ Refresh_UpdateConnection(c)
          \/ Refresh_UpdateConnectionFails(c)

SpecFrame == Init /\ [][FrameNext]_vars

(***************************************************************************)
(* Concurrent refreshes of one Connection: the store holds the Connection  *)
(* an earlier callback created, its Credential is inside the refresh       *)
(* window, and the calls of Racers overlap in every way.                   *)
(***************************************************************************)
\* the answer to the code exchange that created the Connection (callback
\* route.ts lines 59-72: no scope string, so the scopes are [])
FirstAnswer == TokenResponse(TRUE, AccessToken(0), RefreshToken(0), 120, NoScope)

RaceInit ==
    /\ WebhookInit
    /\ connections = [i \in ConnIds |->
          IF i = 1 THEN [exists |-> TRUE, lastRefreshedAt |-> 0, lastRefreshBy |-> 0]
          ELSE NoConnection]
    /\ tokens = [i \in ConnIds |-> IF i = 1 THEN CreatedToken(FirstAnswer, 0) ELSE NoTokenRow]
    /\ nextConnId = 2
    /\ now = 0
    /\ issued = 0
    /\ tpc = [c \in Racers |-> "idle"]
    /\ tkind = [c \in Racers |-> "none"]
    /\ targ = [c \in Racers |-> 0]
    /\ trec = [c \in Racers |-> NoLookup]
    /\ texisting = [c \in Racers |-> NoTokenRow]
    /\ tfetch = [c \in Racers |-> NetworkError]
    /\ tdata = [c \in Racers |-> NoData]
    /\ tresult = [c \in Racers |-> NoResult]
    /\ thist = [c \in Racers |-> NoHistory]
    /\ OAuthIdle
    /\ EnvReady

RaceNext ==
    \E c \in Racers :
        \/ GetValid_Find(c)
        \/ GetValid_Check(c)
        \/ ManualRefresh_Find(c)
        \/ Refresh_Find(c)
        \/ Refresh_Fetch(c)
        \/ Refresh_UpdateToken(c)
        \/ Refresh_UpdateTokenFails(c)
        \/ Refresh_UpdateConnection(c)
        \/ Refresh_UpdateConnectionFails(c)

SpecRace == RaceInit /\ [][RaceNext]_vars

Next == WebhookNext \/ TokenNext \/ OAuthNext

Spec == Init /\ [][Next]_vars


(***************************************************************************)
(* Claims about the webhook receiver, checked under SpecWebhook.           *)
(***************************************************************************)
Authentic(d) == verifyWebhookSignature(wreq[d].raw, wreq[d].sig)

JobsOf(e) == {j \in jobs : j.webhookEventId = e.id}

EventsOfBody(raw) == {e \in webhookEvents : e.payloadHash = payloadSha256(raw)}

\* C1: in every reachable state every persisted WebhookEvent has exactly one
\* Job; a WebhookEvent without its Job is never observable.  (The code
\* makes the two inserts in two calls: the statement fails.)
C1_EveryEventHasItsJob ==
    \A e \in webhookEvents : Cardinality(JobsOf(e)) = 1

\* C2: a correctly signed, parseable raw body delivered twice, the second
\* delivery after the first was answered (and the store failing neither),
\* leaves exactly one WebhookEvent and one Job, and the second answer is
\* 200 deduped:true.  (A signed body "null" parses and makes both handlers
\* throw: the statement fails.)
C2_TwiceInSequenceIsOnce ==
    \A d1, d2 \in Deliveries :
        ( /\ d1 \in wafter[d2]
          /\ wpc[d2] = "done"
          /\ wreq[d1].raw = wreq[d2].raw
          /\ Authentic(d1) /\ Authentic(d2)
          /\ JSONParse(wreq[d1].raw) # SyntaxError
          /\ wresp[d1].status # 500 /\ wresp[d2].status # 500
          /\ \A d3 \in Deliveries \ {d1, d2} : wreq[d3].raw # wreq[d1].raw )
        => /\ Cardinality(EventsOfBody(wreq[d1].raw)) = 1
           /\ \A e \in EventsOfBody(wreq[d1].raw) : Cardinality(JobsOf(e)) = 1
           /\ wresp[d2] = Json(200, "ok_deduped")

\* the deliveries of a raw body that passed authentication
AcceptedDeliveries(raw) ==
    {d \in Deliveries : wpc[d] # "idle" /\ wreq[d].raw = raw /\ Authentic(d)}

C4_UnauthenticatedIsRejectedFirst ==
    \A d \in Deliveries :
        (wpc[d] # "idle" /\ ~Authentic(d))
        => /\ wpc[d] = "done"
           /\ wresp[d].status = 401
           /\ wtrace[d] = <<"RECEIVED", "REJECTED", "RESPONDED">>
           /\ \A e \in webhookEvents : e.id # d
           /\ \A j \in jobs : j.id # d

\* C4 witness: an unsigned body that is no JSON was answered 401
C4_Witness ==
    \E d \in Deliveries :
        /\ wpc[d] = "done"
        /\ ~Authentic(d)
        /\ JSONParse(wreq[d].raw) = SyntaxError
        /\ wresp[d].status = 401

\* the paths of the request state machine of the receiver
RequestPaths ==
    { <<"RECEIVED", "REJECTED", "RESPONDED">>,
      <<"RECEIVED", "AUTHENTICATED", "REJECTED", "RESPONDED">>,
      <<"RECEIVED", "AUTHENTICATED", "PARSED", "PERSISTED", "RESPONDED">>,
      <<"RECEIVED", "AUTHENTICATED", "PARSED", "DEDUPED", "RESPONDED">>,
      <<"RECEIVED", "AUTHENTICATED", "PARSED", "RESPONDED">> }

\* C5: every request ends in one of the responses 200, 400, 401, 500 along
\* RECEIVED -> AUTHENTICATED -> PARSED -> PERSISTED|DEDUPED -> RESPONDED or a
\* REJECTED; no authenticated body ends the handler without a response.
\* (A signed body "null" ends it with a TypeError: the statement fails.)
C5_EveryRequestIsAnswered ==
    \A d \in Deliveries :
        wpc[d] = "done"
        => /\ wresp[d].status \in {200, 400, 401, 500}
           /\ wtrace[d] \in RequestPaths

\* C6: when persisting an authenticated, parsed webhook fails, the answer is
\* 200 {ok, deduped} exactly when the failure is the uniqueness violation,
\* and that delivery creates no WebhookEvent and no Job; every other
\* failure is answered 500.
C6_OnlyDuplicateIsDeduped ==
    \A d \in Deliveries :
        /\ wresp[d] = Json(200, "ok_deduped") => wcaught[d] = "P2002"
        /\ wcaught[d] = "P2002" =>
              /\ wresp[d] = Json(200, "ok_deduped")
              /\ \A e \in webhookEvents : e.id # d
              /\ \A j \in jobs : j.id # d
        /\ wcaught[d] \notin {"none", "P2002"} => wresp[d].status = 500

\* C6 witness: one delivery hit the constraint, another a failing store
C6_Witness ==
    \E d1, d2 \in Deliveries :
        /\ wcaught[d1] = "P2002" /\ wpc[d1] = "done"
        /\ wcaught[d2] = StoreFailure /\ wpc[d2] = "done"


(***************************************************************************)
(* Claims about the credential store, checked under SpecToken.             *)
(***************************************************************************)
\* milliseconds the looked-up token had left when getValidAccessToken decided
LeftAtDecision(c) == trec[c].row.expiresAt - trec[c].at

\* C7: getValidAccessToken refreshes before returning exactly when
\* expires_at - now <= 120 seconds at its decision; when it does not refresh
\* it returns the access token it looked up and makes no provider call.
C7_RefreshIffInsideWindow ==
    \A c \in Calls :
        (tkind[c] = "getValidAccessToken" /\ trec[c].path # "none")
        => /\ trec[c].path = "refresh" <=> LeftAtDecision(c) <= 120 * 1000
           /\ trec[c].path = "cached" =>
                 /\ tpc[c] = "done"
                 /\ tresult[c] = Returned(trec[c].row.accessToken)
                 /\ thist[c] = NoHistory
           /\ (trec[c].path = "refresh" /\ tresult[c].status = "returned") =>
                 /\ thist[c].fetches = 1
                 /\ tresult[c].token = tfetch[c].access_token

\* C7 witness: a token with exactly 120 s left was refreshed and the new one
\* returned
C7_Witness ==
    \E c \in Calls :
        /\ tkind[c] = "getValidAccessToken"
        /\ LeftAtDecision(c) = 120000
        /\ trec[c].path = "refresh"
        /\ tresult[c].status = "returned"

\* C8: when getValidAccessToken is inside the refresh window and the refresh
\* request fails (no response, a non-2xx response, or no access token in the
\* body), the call fails with an error and returns no token, so never the
\* one that was stored.
C8_FailedRefreshReturnsNoToken ==
    \A c \in Calls :
        ( /\ tkind[c] = "getValidAccessToken"
          /\ thist[c].fetches > 0
          /\ (~tfetch[c].net \/ ~tfetch[c].ok \/ tfetch[c].access_token = NoToken) )
        => /\ tpc[c] = "done"
           /\ tresult[c].status = "threw"
           /\ tresult[c].token = NoToken

\* C8 witness: the provider answered 2xx without an access token
C8_Witness ==
    \E c \in Calls :
        /\ tkind[c] = "getValidAccessToken"
        /\ thist[c].fetches = 1
        /\ tfetch[c] = TokenResponse(TRUE, NoToken, NoToken, 0, NoScope)
        /\ tpc[c] = "done"

\* C9: the step in which a refresh fails on the provider's answer (no
\* response, non-2xx, no access token) leaves the Token and Connection tables
\* as they were, and that refresh has written neither before.
C9_FailedRefreshWritesNothing ==
    [][ \A c \in Calls :
          ( /\ tpc[c] = "fetch" /\ tpc'[c] # "fetch"
            /\ (~tfetch'[c].net \/ ~tfetch'[c].ok \/ tfetch'[c].access_token = NoToken) )
          => /\ tokens' = tokens
             /\ connections' = connections
             /\ thist'[c].wrote = {}
             /\ tpc'[c] = "done" ]_vars

\* C9 witness: a refresh ended on a network error while a Credential exists
C9_Witness ==
    \E c \in Calls :
        /\ thist[c].fetches = 1
        /\ tfetch[c] = NetworkError
        /\ tpc[c] = "done"
        /\ tokens[targ[c]].exists

\* C10: no reachable state has the Credential of a Connection carrying the
\* tokens of one provider response while the Connection's last-refresh
\* timestamp is still that of an earlier one.  (The code updates the two
\* rows in two calls: the statement fails.)
C10_CredentialAndTimestampTogether ==
    \A id \in ConnIds :
        tokens[id].exists
        => /\ connections[id].exists
           /\ connections[id].lastRefreshBy = tokens[id].accessToken.n


(***************************************************************************)
(* Claims about concurrent refreshes, checked under SpecRace.              *)
(***************************************************************************)
\* the calls that refreshed Connection id and returned
Refreshed(id) ==
    {c \in DOMAIN tpc : /\ targ[c] = id /\ tpc[c] = "done"
                        /\ thist[c].wrote = {"Token", "Connection"}}

\* no call is between its first and its last step
Quiet == \A c \in DOMAIN tpc : tpc[c] \in {"idle", "done"}

\* call c takes the step prisma.token.update
WritesToken(c) == tpc[c] = "updateToken" /\ tpc'[c] = "updateConnection"

\* C11 (as stated): when two refreshes of one Connection both succeeded and
\* have finished, the stored Credential equals in all four fields the data
\* of the refresh whose provider answer was received last.  (The update
\* that is applied last wins, whichever answer came last: the statement
\* fails.)
C11_LastResponseWins ==
    \A id \in ConnIds : \A a, b \in Refreshed(id) :
        ( /\ Quiet
          /\ Refreshed(id) = {a, b}
          /\ tfetch[a].access_token.n < tfetch[b].access_token.n )
        => /\ tokens[id].accessToken = tdata[b].accessToken
           /\ tokens[id].refreshToken = tdata[b].refreshToken
           /\ tokens[id].expiresAt = tdata[b].expiresAt
           /\ tokens[id].scopes = tdata[b].scopes

\* C11 (amended): the Credential changes only in the step token.update of a
\* refresh, and that step overwrites all four fields with the data of that
\* refresh, whatever was stored: the Credential is that of the update
\* applied last.
C11_LastWriterWins ==
    [][ \A id \in ConnIds :
          tokens'[id] # tokens[id]
          => \E c \in DOMAIN tpc :
                /\ targ[c] = id /\ WritesToken(c)
                /\ tokens'[id].accessToken = tdata[c].accessToken
                /\ tokens'[id].refreshToken = tdata[c].refreshToken
                /\ tokens'[id].expiresAt = tdata[c].expiresAt
                /\ tokens'[id].scopes = tdata[c].scopes ]_vars

\* C11 witness: two refreshes finished, and the Credential is that of the
\* answer received first
C11_Witness ==
    \E a, b \in Refreshed(1) :
        /\ Quiet
        /\ tfetch[a].access_token.n < tfetch[b].access_token.n
        /\ tokens[1].accessToken = tdata[a].accessToken
        /\ tokens[1].scopes # tdata[b].scopes

\* C13: the step token.update of a refresh stores the refresh token of the
\* answer when the answer has one, and otherwise leaves the refresh token
\* as it was stored immediately before the step.  (The code writes back the
\* refresh token its caller had read: the statement fails when another
\* refresh rotated it in between.)
C13_CarriesStoredRefreshToken ==
    [][ \A c \in DOMAIN tpc :
          WritesToken(c)
          => tokens'[targ[c]].refreshToken =
                IF tfetch[c].refresh_token # NoToken THEN tfetch[c].refresh_token
                ELSE tokens[targ[c]].refreshToken ]_vars

\* C14: the step token.update of a refresh stores the space-separated
\* entries of the answer's scope string when the answer has one, and
\* otherwise leaves the scopes as they were stored immediately before the
\* step.  (The code writes back the scopes it read when the refresh began:
\* the statement fails when another refresh changed them in between.)
C14_CarriesStoredScopes ==
    [][ \A c \in DOMAIN tpc :
          WritesToken(c)
          => tokens'[targ[c]].scopes =
                IF tfetch[c].scope.present THEN SplitScopes(tfetch[c].scope.s)
                ELSE tokens[targ[c]].scopes ]_vars

C15_OnlySuccessWrites ==
    \A c \in Calls :
        /\ trec[c].path = "cached" => thist[c].wrote = {}
        /\ (tpc[c] = "done" /\ tresult[c].status \notin {"returned", "redirect"})
              => thist[c].wrote = {}
(***************************************************************************)
(* Claims about the OAuth state token and the callback, checked under      *)
(* SpecOAuth.                                                              *)
(***************************************************************************)
\* the callback requests that reached verifyOAuthStateToken
Verifying ==
    {k \in Callbacks : cb[k].pc # "idle" /\ cb[k].code /\ cb[k].state.form # "none"}

\* the state parameter of request k
State(k) == StateOf(cb[k].state)

\* the second at which request k verified its state
VerifiedAtSec(k) == cb[k].at \div 1000

\* the second a token names as its iat
IssuedAtSec(token) == DecodeAndParse(token[1]).payload.iat

\* what verifying each token that can be minted answers 599, 600 and 601
\* seconds after the second it names as its iat
AtAge ==
    [x \in DOMAIN MintTable |->
        [age \in 599..601 |->
            verifyOAuthStateToken(MintTable[x], OAUTH_STATE_SECRET,
                                  (IssuedAtSec(MintTable[x]) + age) * 1000)]]

\* C16: in every state each Connection has its one Credential and each
\* Credential its Connection: the callback creates the two together, and a
\* callback that failed (the exchange, or the create) created neither.
C16_ConnectionIffCredential ==
    /\ \A id \in ConnIds : connections[id].exists <=> tokens[id].exists
    /\ \A k \in Callbacks :
          /\ cb[k].resp = Redirect <=> cb[k].created # 0
          /\ (cb[k].pc = "done" /\ cb[k].resp # Redirect)
                => \A id \in ConnIds : connections[id].exists =>
                       \E j \in Callbacks \ {k} : cb[j].created = id

\* C16 witness: a callback created a Connection and its Credential
C16_Witness ==
    \E k \in Callbacks :
        /\ cb[k].created # 0
        /\ connections[cb[k].created].exists
        /\ tokens[cb[k].created].exists
        /\ tokens[cb[k].created].accessToken # NoToken

\* C17: a state token minted at second t is accepted by every verification
\* at a second <= t + 600 and rejected as expired by every later one (so
\* accepted at t + 599 and at t + 600, rejected at t + 601).
C17_ValidForTenMinutes ==
    /\ \A k \in Verifying :
          cb[k].state.form = "minted" =>
              IF VerifiedAtSec(k) <= IssuedAtSec(State(k)) + 600
              THEN cb[k].verdict.ok
              ELSE ~cb[k].verdict.ok /\ cb[k].verdict.error = "State token expired"
    /\ \A x \in minted :
          /\ AtAge[x.at, x.n][599].ok
          /\ AtAge[x.at, x.n][600].ok
          /\ AtAge[x.at, x.n][601].error = "State token expired"

\* C17 witness: a token was accepted exactly 600 s after it was minted
C17_Witness ==
    \E k \in Verifying :
        /\ cb[k].state.form = "minted"
        /\ VerifiedAtSec(k) = IssuedAtSec(State(k)) + 600
        /\ cb[k].verdict.ok

\* the string has exactly two pieces around one ".", both non-empty
TwoParts(state) ==
    Len(state) = 2 /\ state[1].kind # "empty" /\ state[2].kind # "empty"

\* C18: verifyOAuthStateToken fails with the malformed-token error for every
\* input that does not split at "." into exactly two non-empty pieces, also
\* for three or more pieces.  (The code looks at the first two pieces only:
\* a valid token with ".suffix" appended is accepted, the statement fails.)
C18_NotTwoPartsIsMalformed ==
    \A k \in Verifying :
        ~TwoParts(State(k))
        => ~cb[k].verdict.ok /\ cb[k].verdict.error = "Malformed state token"

\* the piece verifyOAuthStateToken takes for the payload, and for the signature
PayloadPart(state) == IF Len(state) >= 1 THEN state[1] ELSE EmptyPart

SignaturePart(state) == IF Len(state) >= 2 THEN state[2] ELSE EmptyPart

\* C19: a token signed with a secret that is not the verifier's fails with
\* the invalid-signature error before its payload is decoded, parsed or
\* checked for expiry; no token whose signature piece is not the HMAC of its
\* payload piece under the server's secret is accepted.
C19_SignatureBeforePayload ==
    \A k \in Verifying : \A p \in {PayloadPart(State(k))} :
      \A g \in {SignaturePart(State(k))} :
            /\ g # signHmacSha256(p, OAUTH_STATE_SECRET) => ~cb[k].verdict.ok
            /\ (g.kind = "sig" /\ g.key # OAUTH_STATE_SECRET /\ p.kind # "empty")
                  => cb[k].verdict = Rejected("Invalid state signature", <<"COMPARED">>)

\* C19 witness: a token signed with another secret, already past its exp,
\* was rejected for its signature
C19_Witness ==
    \E k \in Verifying :
        /\ SignaturePart(State(k)) =
              signHmacSha256(PayloadPart(State(k)), OtherSecret)
        /\ VerifiedAtSec(k) >
              DecodeAndParse(PayloadPart(State(k))).payload.exp
        /\ cb[k].verdict.error = "Invalid state signature"

\* C20: a callback whose state fails verification (malformed, signature
\* changed, malformed payload, expired) answers the HTML error with status
\* 401, never throws, exchanges no code and creates nothing.
C20_BadStateIs401 ==
    \A k \in Verifying :
        ~cb[k].verdict.ok
        => /\ cb[k].pc = "done"
           /\ cb[k].resp = Html(401, cb[k].verdict.error)
           /\ cb[k].fetches = 0
           /\ cb[k].created = 0

\* C20 witness: an expired token of the server was answered 401
C20_Witness ==
    \E k \in Verifying :
        /\ cb[k].state.form = "minted"
        /\ cb[k].verdict.error = "State token expired"
        /\ cb[k].resp.status = 401
        /\ cb[k].pc = "done"

(***************************************************************************)
(* Claims C21..C30.                                                        *)
(***************************************************************************)
\* the nonces createOAuthStateToken is given, by mint
Nonces == [n \in 1..MaxStates |-> randomNonce(n)]

\* the payload createOAuthStateToken encoded into the token of request k
EncodedPayload(k) == StatePayload(cb[k].state.at, Nonces[cb[k].state.n])

\* C21: a token made by createOAuthStateToken from the payload {iat, exp,
\* nonce} and verified with the same secret at a second not after exp is
\* accepted, and the payload verification returns equals the one encoded.
C21_RoundTrip ==
    \A k \in Verifying :
        (cb[k].state.form = "minted" /\ VerifiedAtSec(k) <= EncodedPayload(k).exp)
        => /\ cb[k].verdict.ok
           /\ cb[k].verdict.payload = EncodedPayload(k)

\* C21 witness: a minted token was verified before its expiry and a payload
\* with its nonce came back
C21_Witness ==
    \E k \in Verifying :
        /\ cb[k].state.form = "minted"
        /\ VerifiedAtSec(k) <= EncodedPayload(k).exp
        /\ cb[k].verdict.ok
        /\ cb[k].verdict.payload.nonce = Nonces[cb[k].state.n]
        /\ Len(cb[k].verdict.payload.nonce) > 0

\* request k made its call of the token endpoint and the exchange failed:
\* the call threw, or its answer did not pass the check of line 65
ExchangeDidFail(k) ==
    cb[k].pc = "done" /\ cb[k].fetches > 0 /\ cb[k].data.token = NoTokenRow

\* C22: a callback creates a Connection and Credential only after its state
\* verified and the token endpoint answered 2xx with an access and a refresh
\* token; a callback without code or state answers 400 and calls no
\* provider; a failed token exchange answers 400 and persists nothing.
C22_CallbackContract ==
    \A k \in Callbacks :
        /\ cb[k].created # 0
              => /\ cb[k].verdict.ok
                 /\ cb[k].fetches = 1
                 /\ cb[k].data.token.accessToken # NoToken
                 /\ cb[k].data.token.refreshToken # NoToken
        /\ (cb[k].pc # "idle" /\ (~cb[k].code \/ cb[k].state.form = "none"))
              => /\ cb[k].resp.status = 400
                 /\ cb[k].fetches = 0
                 /\ cb[k].created = 0
        /\ ExchangeDidFail(k) => cb[k].resp.status = 400 /\ cb[k].created = 0

\* delivery d got past the signature check of the receiver
PassedSignature(d) == Len(wtrace[d]) >= 2 /\ wtrace[d][2] = "AUTHENTICATED"

\* C23: verifyWebhookSignature returns true for the header that is the
\* base64 HMAC-SHA256 of the raw body under the client secret, and false for
\* a missing header, for a header of another length, and for the signature
\* of a body that differs from the received one in one byte; the receiver
\* lets a delivery past the check exactly when it returned true.
C23_SignatureOfThisBody ==
    \A d \in Deliveries :
        wpc[d] # "idle" =>
            LET raw == wreq[d].raw
                sig == wreq[d].sig
                verdict == verifyWebhookSignature(raw, sig)
            IN  /\ verdict = PassedSignature(d)
                /\ sig = Hmac(JOBBER_CLIENT_SECRET, raw) => verdict
                /\ sig = NoSignature => ~verdict
                /\ ByteLength(sig) # ByteLength(Hmac(JOBBER_CLIENT_SECRET, raw)) => ~verdict
                /\ sig = Hmac(JOBBER_CLIENT_SECRET, OneByteOff(raw)) => ~verdict
                /\ sig # Hmac(JOBBER_CLIENT_SECRET, raw) => ~verdict

\* C23 witness: a delivery signed for a body one byte off was turned away,
\* and one carrying its own signature got past the check
C23_Witness ==
    \E d1, d2 \in Deliveries :
        /\ wpc[d1] = "done"
        /\ wreq[d1].sig = Hmac(JOBBER_CLIENT_SECRET, OneByteOff(wreq[d1].raw))
        /\ wresp[d1].status = 401
        /\ wpc[d2] # "idle"
        /\ wreq[d2].sig = Hmac(JOBBER_CLIENT_SECRET, wreq[d2].raw)
        /\ PassedSignature(d2)

\* C24: every refresh getValidAccessToken starts comes to an end, also when
\* the provider never answers the refresh request: the call then fails
\* (RefreshFailed) and is not pending forever; a call whose refresh failed
\* returns no token.
C24_RefreshEventuallyFinishes ==
    /\ \A c \in Calls :
          (tkind[c] = "getValidAccessToken" /\ tpc[c] = "fetch") ~> (tpc[c] = "done")
    /\ [](\A c \in Calls :
            (tkind[c] = "getValidAccessToken" /\ tpc[c] = "done"
                /\ tfetch[c] # NetworkError /\ RefreshFailed(tfetch[c]))
            => tresult[c].status = "threw")

\* the entries of a scope string: its maximal runs of characters other than
\* the space
EntriesOf(chars) ==
    { SubSeq(chars, i, j) : i \in 1..Len(chars), j \in 1..Len(chars) } \cap
    { SubSeq(chars, i, j) : <<i, j>> \in
         { p \in (1..Len(chars)) \X (1..Len(chars)) :
              /\ p[1] <= p[2]
              /\ \A x \in p[1]..p[2] : chars[x] # " "
              /\ (p[1] = 1 \/ chars[p[1] - 1] = " ")
              /\ (p[2] = Len(chars) \/ chars[p[2] + 1] = " ") } }

\* the scope set of a Token row
ScopeSet(row) == {row.scopes[i] : i \in DOMAIN row.scopes}

\* C25: the Token row a successful code exchange creates has expiresAt =
\* the instant of the exchange + expires_in seconds and as scopes the
\* non-empty space-separated entries of the answer's scope string (none when
\* the answer has no scope string); the data of a successful refresh has
\* expiresAt = the instant its answer came + expires_in seconds, and that
\* is the expiresAt the refresh stores.
C25_ExpiryIsNowPlusExpiresIn ==
    [][ /\ \A id \in ConnIds :
              (~tokens[id].exists /\ tokens'[id].exists)
              => \E resp \in ProviderAnswers(issued + 1) :
                    /\ tokens'[id].accessToken = resp.access_token
                    /\ tokens'[id].expiresAt = now + resp.expires_in * 1000
                    /\ ScopeSet(tokens'[id]) =
                          IF resp.scope.present THEN EntriesOf(resp.scope.s) ELSE {}
        /\ \A c \in Calls :
              (tpc[c] = "fetch" /\ tpc'[c] = "updateToken")
              => tdata'[c].expiresAt = now + tfetch'[c].expires_in * 1000
        /\ \A id \in ConnIds :
              (tokens[id].exists /\ tokens'[id].exists /\ tokens'[id] # tokens[id])
              => \E c \in Calls :
                    /\ tpc[c] = "updateToken" /\ targ[c] = id
                    /\ tokens'[id].expiresAt = tdata[c].expiresAt
      ]_vars

\* C25 witness: a code exchange stored the scopes r and w of the string
\* "r  w", and a refresh of that Connection wrote its Token
C25_Witness ==
    \E c \in Calls :
        /\ "Token" \in thist[c].wrote
        /\ tokens[targ[c]].exists
        /\ tokens[targ[c]].expiresAt = tdata[c].expiresAt
        /\ tokens[targ[c]].expiresAt > now
        /\ ScopeSet(tokens[targ[c]]) = {<<"r">>, <<"w">>}

\* Connection id was created and is gone: it was disconnected
Disconnected(id) == id < nextConnId /\ ~connections[id].exists

\* the getValidAccessToken calls for id that looked the token up after the
\* Connection had been created and found none: they came after its disconnect
CallsAfterDisconnect(id) ==
    {c \in Calls : /\ tkind[c] = "getValidAccessToken"
                   /\ targ[c] = id
                   /\ id < trec[c].known
                   /\ ~trec[c].row.exists}

\* C26: once a Connection was disconnected neither it nor its Credential is
\* in the store, and a getValidAccessToken for its id that comes later
\* fails with "No token found" and makes no request to the provider.
C26_DisconnectedIsGone ==
    \A id \in ConnIds :
        /\ Disconnected(id) => ~tokens[id].exists
        /\ \A c \in CallsAfterDisconnect(id) :
              /\ tpc[c] = "done"
              /\ tresult[c] = Threw("No token found")
              /\ thist[c].fetches = 0
              /\ thist[c].wrote = {}

\* C26 witness: a Connection was disconnected and a later call for its id
\* ended in the not-found error
C26_Witness ==
    \E id \in ConnIds :
        /\ Disconnected(id)
        /\ ~tokens[id].exists
        /\ \E c \in CallsAfterDisconnect(id) : tresult[c].error = "No token found"

Resolves(ref) == ref = Str("c1") /\ connections[1].exists

\* C28: a delivery that is authentic and parses, and whose persistence the
\* store does not fail, is answered 200 and its event is in the store (its
\* own row, or the row of the delivery it duplicates) also when its payload
\* names no Connection or one that does not exist; the row's connection
\* reference is then unresolved (empty).
C28_PersistedWithoutConnection ==
    \A d \in Deliveries :
        (/\ wpc[d] = "done"
         /\ Authentic(d)
         /\ JSONParse(wreq[d].raw) # SyntaxError
         /\ wcaught[d] \in {"none", "P2002"}
         /\ ~Resolves(maybeConnectionIdFromPayload(JSONParse(wreq[d].raw))))
        => /\ wresp[d].status = 200
           /\ EventsOfBody(wreq[d].raw) # {}
           /\ \A e \in EventsOfBody(wreq[d].raw) : e.connectionId = Undefined

\* delivery d persisted afresh: its WebhookEvent and its Job are in the store
FreshlyPersisted(d) ==
    /\ \E e \in webhookEvents : e.id = d
    /\ \E j \in jobs : j.id = d /\ j.webhookEventId = d

\* what C29 asks of a state: the deliveries that persisted afresh, and only
\* they, are answered 200 {ok: true}, and every Job is PENDING
AnsweredOkAndPending ==
    /\ \A d \in Deliveries : FreshlyPersisted(d) <=> wresp[d] = Json(200, "ok")
    /\ \A j \in jobs : j.status = "PENDING"

\* C29: a delivery that persisted afresh is answered 200 {ok: true} and its
\* new Job is PENDING; no step of the receiver, before or after an answer,
\* changes or removes a Job: every Job stays as it was created.
C29_JobsStayPending ==
    [][ /\ AnsweredOkAndPending'
        /\ \A j \in jobs : j \in jobs' ]_vars

\* C29 witness: a delivery was answered 200 {ok: true}, a later one was
\* handled to its end, and the Job of the first is still PENDING
C29_Witness ==
    \E d1, d2 \in Deliveries :
        /\ wresp[d1] = Json(200, "ok")
        /\ wpc[d2] = "done" /\ d1 \in wafter[d2]
        /\ \E j \in jobs : j.id = d1 /\ j.status = "PENDING"

\* C30: when a required variable is missing the failure comes at the start
\* of the server: the server does not get to serve, and no handler of a
\* request starts to run.
C30_MissingConfigFailsAtStartup ==
    processEnv # requiredServerVars
    => /\ server # "serving"
       /\ \A r \in Requests : ~handled[r].started

(***************************************************************************)
(* Claims C31..C38.                                                        *)
(***************************************************************************)
\* the token of this description carries the signature the server's secret
\* gives its payload piece
SignedByServer(q) ==
    q.form \in {"minted", "suffix", "nojson", "noexp", "noiat", "nononce"}

\* the payload of the token of this description is a JSON object that lacks
\* exp, iat or nonce
LacksField(q) == q.form \in {"noexp", "noiat", "nononce", "noexp_resigned"}

\* the verification of request k was after the second its token names as exp
PastExpiry(k) ==
    \/ cb[k].state.form \in {"noexp", "noiat", "noexp_resigned"}
    \/ /\ cb[k].state.form \in {"minted", "suffix", "unsigned", "altered", "resigned"}
       /\ VerifiedAtSec(k) > cb[k].state.at \div 1000 + 600
    \/ cb[k].state.form = "nononce" /\ VerifiedAtSec(k) > 601

\* C31: a token with the server's signature whose payload lacks exp, iat or
\* nonce is rejected as a malformed payload; the payload and the expiry are
\* looked at only after the signatures compared equal, so a token with
\* several defects fails with the first of: malformed token, invalid
\* signature, malformed payload, expired.
C31_OrderOfOutcomes ==
    \A k \in Verifying :
        LET q == cb[k].state
            v == cb[k].verdict
        IN  /\ (SignedByServer(q) /\ LacksField(q))
                  => v = Rejected("Malformed state payload",
                                  <<"COMPARED", "DECODED", "PARSED">>)
            /\ q.form = "unsigned" => v = Rejected("Malformed state token", <<>>)
            /\ (~SignedByServer(q) /\ q.form # "unsigned")
                  => v = Rejected("Invalid state signature", <<"COMPARED">>)
            /\ v.error \in {"Malformed state payload", "State token expired"}
                  => SignedByServer(q) /\ v.trace[1] = "COMPARED"
            /\ v.error = "State token expired"
                  => ~LacksField(q) /\ PastExpiry(k)

\* C31 witness: a token signed by the server that lacks iat, verified after
\* the second its exp names, was rejected as a malformed payload
C31_Witness ==
    \E k \in Verifying :
        /\ cb[k].state.form = "noiat"
        /\ PastExpiry(k)
        /\ cb[k].verdict.error = "Malformed state payload"


\* delivery d2 is a retry of delivery d1: the same raw body, correctly
\* signed, received after d1 was answered 500
RetryOf(d1, d2) ==
    /\ d1 \in wafter[d2]
    /\ wreq[d1].raw = wreq[d2].raw
    /\ Authentic(d1) /\ Authentic(d2)
    /\ wresp[d1].status = 500

\* C32: when a correctly signed delivery was answered 500 and a retry of the
\* same raw body is answered 2xx, the store holds a WebhookEvent of that
\* body with a PENDING Job; no deduped 200 for an event without a Job.
\* (The event is inserted before the Job in a call of its own: when the Job
\* insert fails the retry meets the event and is answered deduped.)
C32_RetryEndsWithEventAndJob ==
    \A d1, d2 \in Deliveries :
        (RetryOf(d1, d2) /\ wresp[d2].status = 200)
        => \E e \in EventsOfBody(wreq[d2].raw) :
              \E j \in JobsOf(e) : j.status = "PENDING"


\* call c returns an access token in this step
ReturnsToken(c) == tresult[c].status # "returned" /\ tresult'[c].status = "returned"

\* C33: getValidAccessToken never returns an access token whose expiry in
\* the store is at or before the time of the return: the store's row with
\* the returned token expires after that time.  (Line 70 takes expires_in
\* as it comes: a token that the provider issues with expires_in 0 is
\* written with expiry now and returned.)
C33_NeverReturnsExpired ==
    [][\A c \in Calls :
          (ReturnsToken(c) /\ tkind[c] = "getValidAccessToken"
             /\ tokens'[targ[c]].exists
             /\ tokens'[targ[c]].accessToken = tresult'[c].token)
          => tokens'[targ[c]].expiresAt > now']_vars


\* the Connection of call c was disconnected while its refresh was in
\* flight: refreshAccessToken had read the Credential (line 38), and the
\* Connection was deleted before the refresh wrote anything
DisconnectedInFlight(c) ==
    /\ texisting[c].exists
    /\ Disconnected(targ[c])
    /\ thist[c].wrote = {}

\* C34: when a disconnect of a Connection comes between the read and the
\* write of a refresh of that Connection, the refresh fails (the call
\* throws, the route answers 400) and writes nothing: the Connection and
\* its Credential stay deleted.
C34_DisconnectBeatsRefresh ==
    \A c \in Calls :
        /\ DisconnectedInFlight(c)
              => /\ tpc[c] \in {"fetch", "updateToken", "done"}
                 /\ tpc[c] = "done" => tresult[c].status \in {"threw", "400"}
        /\ (texisting[c].exists /\ Disconnected(targ[c]))
              => ~connections[targ[c]].exists /\ ~tokens[targ[c]].exists

\* C34 witness: a refresh got new tokens from the provider, found the row
\* gone at its write and failed, and the store holds no Credential
C34_Witness ==
    \E c \in Calls :
        /\ DisconnectedInFlight(c)
        /\ tpc[c] = "done"
        /\ thist[c].fetches = 1
        /\ ~RefreshFailed(tfetch[c])
        /\ tresult[c].status \in {"threw", "400"}
        /\ ~tokens[targ[c]].exists


\* request k presented a minted state token at a second inside its window
PresentedInWindow(k) ==
    /\ cb[k].pc # "idle"
    /\ cb[k].state.form = "minted"
    /\ VerifiedAtSec(k) <= cb[k].state.at \div 1000 + 600

\* the requests that were answered with the redirect
Redirected == {k \in DOMAIN cb : cb[k].resp = Redirect}

\* every presentation inside the window was accepted, whoever presented the
\* token before, and every request that got through created a Connection
\* of its own with a Credential of its own
ReplaysAccepted ==
    /\ \A k \in DOMAIN cb : PresentedInWindow(k) => cb[k].verdict.ok
    /\ \A k \in Redirected :
          /\ cb[k].created \in DOMAIN connections
          /\ connections[cb[k].created].exists
          /\ tokens[cb[k].created].exists
          /\ tokens[cb[k].created].accessToken = cb[k].data.token.accessToken
    /\ \A k, j \in Redirected :
          k # j => /\ cb[k].created # cb[j].created
                   /\ tokens[cb[k].created].accessToken # tokens[cb[j].created].accessToken
    /\ Cardinality({id \in DOMAIN connections : connections[id].exists})
          = Cardinality(Redirected)

\* request k is received and its state verified in this step
VerifiesState(k) == cb[k].pc = "idle" /\ cb'[k].pc # "idle"

\* C35: state verification is stateless: the step that verifies a state
\* writes nothing (not the minted tokens, not the store), and an unexpired
\* minted state is accepted by every callback that presents it, so n
\* callbacks with one state and valid codes create n distinct Connections,
\* each with its own Credential.
C35_ReplayCreatesAgain ==
    [][/\ ReplaysAccepted'
       /\ \A k \in DOMAIN cb :
             VerifiesState(k) => UNCHANGED <<minted, connections, tokens, nextConnId>>]_vars

\* C35 witness: two callbacks presented the same state token and each
\* created a Connection
C35_Witness ==
    \E k, j \in DOMAIN cb :
        /\ k # j
        /\ cb[k].state = cb[j].state
        /\ cb[k].state.form = "minted"
        /\ cb[k].created # 0 /\ cb[j].created # 0
        /\ cb[k].created # cb[j].created
        /\ connections[cb[k].created].exists /\ connections[cb[j].created].exists
        /\ tokens[cb[k].created].exists /\ tokens[cb[j].created].exists


\* two deliveries that carry the same external identifier in different bytes
SameIdOtherBytes(d1, d2) ==
    /\ d1 # d2
    /\ Authentic(d1) /\ Authentic(d2)
    /\ wpc[d1] = "done" /\ wpc[d2] = "done"
    /\ typeof(wloc[d1].externalId) = "string"
    /\ wloc[d1].externalId = wloc[d2].externalId
    /\ wreq[d1].raw # wreq[d2].raw

\* C36: deduplication is keyed on (external identifier, hash of the raw
\* bytes).  A delivery is answered deduped only when an event of the very
\* same bytes is stored; two correctly signed deliveries with the same
\* external identifier and different raw bytes (also when both parse to the
\* same JSON value) that are answered 200 are each stored as an event of
\* their own with a Job of its own, unless the same bytes were stored before.
C36_KeyIsIdAndRawHash ==
    /\ \A d \in Deliveries :
          wresp[d] = Json(200, "ok_deduped")
          => \E e \in webhookEvents :
                /\ e.id # d
                /\ wreq[e.id].raw = wreq[d].raw
                /\ e.externalId = wloc[d].externalId
    /\ \A d1, d2 \in Deliveries :
          (/\ SameIdOtherBytes(d1, d2)
           /\ wresp[d1].status = 200 /\ wresp[d2].status = 200
           /\ \A p \in Deliveries \ {d1, d2} :
                 wreq[p].raw \notin {wreq[d1].raw, wreq[d2].raw})
          => /\ wresp[d1] = Json(200, "ok") /\ wresp[d2] = Json(200, "ok")
             /\ \E e1, e2 \in webhookEvents :
                   /\ e1.id = d1 /\ e2.id = d2
                   /\ e1.payloadHash # e2.payloadHash
                   /\ JobsOf(e1) = {[id |-> d1, webhookEventId |-> d1, status |-> "PENDING"]}
                   /\ JobsOf(e2) = {[id |-> d2, webhookEventId |-> d2, status |-> "PENDING"]}

\* C36 witness: the same payload with and without white space, both stored
C36_Witness ==
    \E d1, d2 \in Deliveries :
        /\ SameIdOtherBytes(d1, d2)
        /\ JSONParse(wreq[d1].raw) = JSONParse(wreq[d2].raw)
        /\ wresp[d1] = Json(200, "ok") /\ wresp[d2] = Json(200, "ok")
        /\ Cardinality(webhookEvents) = 2 /\ Cardinality(jobs) = 2


\* call c is a finished request to POST /api/connections/[id]/refresh
ManualRefreshDone(c) == tkind[c] = "manualRefresh" /\ tpc[c] = "done"

\* C37: the manual refresh endpoint refreshes whatever lifetime the token
\* has left: it answers 404 without a provider call when the Connection has
\* no Credential, answers 400 having left the Credential unchanged when the
\* refresh fails, and otherwise redirects after the Credential and the
\* last-refresh timestamp were both updated.  (A refresh that fails at the
\* second update has already replaced the Credential: the statement fails.)
C37_ManualRefreshContract ==
    \A c \in DOMAIN tpc :
        ManualRefreshDone(c)
        => /\ tresult[c] \in {Responded("404"), Responded("400"), Responded("redirect")}
           /\ tresult[c] = Responded("404")
                 <=> ~trec[c].row.exists
           /\ tresult[c] = Responded("404")
                 => thist[c].fetches = 0 /\ thist[c].wrote = {}
           /\ texisting[c].exists => thist[c].fetches = 1
           /\ tresult[c] = Responded("400") => thist[c].wrote = {}
           /\ tresult[c] = Responded("redirect")
                 => thist[c].wrote = {"Token", "Connection"}


\* the string value of a field, or absent when the field holds no string
StringOrAbsent(field) == IF field.t = "string" THEN field ELSE Undefined

\* C38: for every correctly signed delivery whose body parses, the external
\* identifier is payload.id when that is a string, otherwise payload.eventId
\* when that is a string, otherwise absent; the topic is payload.topic when
\* that is a string, otherwise absent; a field that holds no string is taken
\* as absent and the delivery is not rejected for it.  (The parsed value
\* null has no fields to read: reading payload.id throws.)
C38_IdAndTopicOrAbsent ==
    \A d \in Deliveries :
        (wpc[d] # "idle" /\ Authentic(d) /\ JSONParse(wreq[d].raw) # SyntaxError)
        => \A payload \in {JSONParse(wreq[d].raw)} :
              /\ wresp[d].status \notin {-1, 400, 401}
              /\ wloc[d].externalId =
                    (IF StringOrAbsent(payload.id) # Undefined
                     THEN payload.id ELSE StringOrAbsent(payload.eventId))
              /\ wloc[d].topic = StringOrAbsent(payload.topic)
              /\ \A e \in webhookEvents :
                    e.id = d => /\ e.externalId = wloc[d].externalId
                                /\ e.topic = wloc[d].topic

=============================================================================
